---- MODULE Spec2Model ----
(***************************************************************************)
(* YANG-directed ordering, lookup and JSON codec of the clixon XML tree.   *)
(*                                                                         *)
(*   part_001  xml_cmp, xml_cmp1, xml_sort, xml_sort_verify, xml_search,   *)
(*             xml_insert_pos                                              *)
(*   part_002  json2xml_decode_identityref, xml2json_encode_identityref,   *)
(*             xml2json1_cbuf, _json_parse                                 *)
(*                                                                         *)
(* Strings are sequences of character codes, so that strcmp and the parse  *)
(* of a body under its YANG type are computed and not assumed.             *)
(***************************************************************************)
EXTENDS Integers, Sequences, FiniteSets, TLC

VARIABLES
    x0,        \* YANG statement bound to the parent element ("NULL": unbound)
    children,  \* child vector of the parent (xml_childvec_get)
    before,    \* child vector on entry to the last call of xml_sort
    op,        \* last operation called on the parent
    ret,       \* its return value
    phase,     \* "fresh", "sorted" by one call of xml_sort, "resorted" by more
    fault,     \* the process dereferenced NULL (undefined behaviour) and is gone
    req,       \* request of the last xml_search / xml_insert_pos
    newx,      \* element handed to the last insertion
    idref,     \* an identityref leaf on its way from JSON to XML and back
    doc        \* a document on its way from XML to JSON and back

vars == <<x0, children, before, op, ret, phase, fault, req, newx, idref, doc>>

(***************************************************************************)
(* Bounds of the model.                                                    *)
(***************************************************************************)
MaxLen == 3      \* longest child vector drawn in Init

MaxKids == 2     \* most element children of the root of a document

(***************************************************************************)
(* Strings.                                                                *)
(***************************************************************************)
NULL == "NULL"

NoBody == <<-1>>        \* xml_body / xml_find_body returned NULL

\* the strings of the model as character codes; n9 is "9", colon is ":"
Ascii ==
    [ ca |-> <<99, 97>>, cb |-> <<99, 98>>, cc |-> <<99, 99>>,
      c |-> <<99>>, l |-> <<108>>, ll |-> <<108, 108>>, u |-> <<117>>, s |-> <<115>>,
      a |-> <<97>>, i |-> <<105>>, e |-> <<101>>, b |-> <<98>>, k |-> <<107>>,
      top |-> <<116, 111, 112>>, z |-> <<122>>, xmlns |-> <<120, 109, 108, 110, 115>>,
      NULL |-> <<>>, n9 |-> <<57>>, n10 |-> <<49, 48>>, colon |-> <<58>>,
      e0 |-> <<101, 48>>, e1 |-> <<101, 49>>, e2 |-> <<101, 50>>,
      m1 |-> <<109, 49>>, m2 |-> <<109, 50>>, m3 |-> <<109, 51>>, zz |-> <<122, 122>>,
      p1 |-> <<112, 49>>, p2 |-> <<112, 50>>, p3 |-> <<112, 51>>, i2 |-> <<105, 50>>,
      x2 |-> <<120, 50>>, x3 |-> <<120, 51>>,
      ida |-> <<105, 100, 97>>, idb |-> <<105, 100, 98>>,
      ns1 |-> <<117, 114, 110, 58, 109, 49>>, ns2 |-> <<117, 114, 110, 58, 109, 50>>,
      ns3 |-> <<117, 114, 110, 58, 109, 51>>,
      int8 |-> <<105, 110, 116, 56>>, int16 |-> <<105, 110, 116, 49, 54>>,
      int32 |-> <<105, 110, 116, 51, 50>>, int64 |-> <<105, 110, 116, 54, 52>>,
      uint8 |-> <<117, 105, 110, 116, 56>>, uint16 |-> <<117, 105, 110, 116, 49, 54>>,
      uint32 |-> <<117, 105, 110, 116, 51, 50>>, uint64 |-> <<117, 105, 110, 116, 54, 52>>,
      decimal64 |-> <<100, 101, 99, 105, 109, 97, 108, 54, 52>>,
      boolean |-> <<98, 111, 111, 108, 101, 97, 110>>, unres |-> <<117, 110, 114, 101, 115>>,
      output |-> <<111, 117, 116, 112, 117, 116>>, x |-> <<120>>, y |-> <<121>>, n0 |-> <<48>>,
      n42 |-> <<52, 50>>, true |-> <<116, 114, 117, 101>>, n1p5 |-> <<49, 46, 53>> ]

RECURSIVE strcmp(_, _)
strcmp(s, t) ==
    IF s = <<>> /\ t = <<>> THEN 0
    ELSE IF s = <<>> THEN -1
    ELSE IF t = <<>> THEN 1
    ELSE IF Head(s) # Head(t) THEN Head(s) - Head(t)
    ELSE strcmp(Tail(s), Tail(t))

RECURSIVE DecValue(_, _)
DecValue(s, acc) ==
    IF s = <<>> THEN acc ELSE DecValue(Tail(s), 10 * acc + (Head(s) - 48))

\* xml_cv(x) of a node that holds no typed value
NoCv == [type |-> "NULL", num |-> 0, str |-> <<>>]

\* cv_parse1 into a cv of the given type: 1 and the value, or 0 (no parse).
\* A string holds any text; a decimal64 with n fraction digits holds
\* digits[.digits] with at most n digits behind the point, scaled by 10^n;
\* the other types are read as unsigned integers.
cv_parse1(s, cvtype, n) ==
    LET digits(t) == \A i \in DOMAIN t : t[i] >= 48 /\ t[i] <= 57
        dot == IF \E i \in DOMAIN s : s[i] = 46
               THEN CHOOSE i \in DOMAIN s : s[i] = 46 /\ \A h \in 1..(i - 1) : s[h] # 46
               ELSE Len(s) + 1
        left == SubSeq(s, 1, dot - 1)
        right == SubSeq(s, dot + 1, Len(s))
    IN IF cvtype = "CGV_STRING"
       THEN [ok |-> 1, val |-> [type |-> cvtype, num |-> 0, str |-> s]]
       ELSE IF cvtype = "CGV_DEC64"
       THEN IF /\ left # <<>> /\ digits(left) /\ digits(right) /\ Len(right) <= n
               /\ (dot <= Len(s) => right # <<>>)
            THEN [ok |-> 1,
                  val |-> [type |-> cvtype, str |-> <<>>,
                           num |-> DecValue(left \o right \o [h \in 1..(n - Len(right)) |-> 48], 0)]]
            ELSE [ok |-> 0, val |-> NoCv]
       ELSE IF s # <<>> /\ digits(s)
       THEN [ok |-> 1, val |-> [type |-> cvtype, num |-> DecValue(s, 0), str |-> <<>>]]
       ELSE [ok |-> 0, val |-> NoCv]

cv_cmp(cv1, cv2) ==
    IF cv1.type = "CGV_STRING" THEN strcmp(cv1.str, cv2.str)
    ELSE IF cv1.num < cv2.num THEN -1 ELSE IF cv1.num > cv2.num THEN 1 ELSE 0

(***************************************************************************)
(* The schema: data nodes of the parent statement, in YANG order.          *)
(*   container c; list l {key k}; leaf-list ll {type uint32};              *)
(*   list u {key k; ordered-by user}; list s {key k; config false}         *)
(*   leaf a {type string}; leaf i {type identityref}; leaf e {type empty}; *)
(*   leaf b {type string}, augmented in by module m2; leaf k in each list  *)
(*   below container c a leaf of each numeric type, named after the type,  *)
(*   and leaf unres whose type does not resolve;                           *)
(*   rpc example {input {leaf x; leaf y} output {leaf x; leaf y}} with x   *)
(*   and y of type uint32; rpc empty, without input and output             *)
(*   choice ch {leaf ca; leaf cb}; choice ch2 {leaf cc}                    *)
(*   leaf-list il {type identityref};                                      *)
(*   leaf-list dl {type decimal64 {fraction-digits 1}}                     *)
(* and three parents with these data nodes: a config container, a config   *)
(* false container, and an entry of an ordered-by user list.               *)
(***************************************************************************)
Y_CONTAINER == "container"
Y_LEAF == "leaf"
Y_LEAF_LIST == "leaf-list"
Y_LIST == "list"

Schema ==
    [ c  |-> [keyword |-> Y_CONTAINER, order |-> 0, config |-> 1, user |-> FALSE, cvec |-> <<>>],
      l  |-> [keyword |-> Y_LIST,      order |-> 1, config |-> 1, user |-> FALSE, cvec |-> <<"k">>],
      ll |-> [keyword |-> Y_LEAF_LIST, order |-> 2, config |-> 1, user |-> FALSE, cvec |-> <<>>],
      u  |-> [keyword |-> Y_LIST,      order |-> 3, config |-> 1, user |-> TRUE,  cvec |-> <<"k">>],
      s  |-> [keyword |-> Y_LIST,      order |-> 4, config |-> 0, user |-> FALSE, cvec |-> <<"k">>],
      a  |-> [keyword |-> Y_LEAF,      order |-> 5, config |-> 1, user |-> FALSE, cvec |-> <<>>],
      i  |-> [keyword |-> Y_LEAF,      order |-> 6, config |-> 1, user |-> FALSE, cvec |-> <<>>],
      e  |-> [keyword |-> Y_LEAF,      order |-> 7, config |-> 1, user |-> FALSE, cvec |-> <<>>],
      b  |-> [keyword |-> Y_LEAF,      order |-> 8, config |-> 1, user |-> FALSE, cvec |-> <<>>],
      k  |-> [keyword |-> Y_LEAF,      order |-> 0, config |-> 1, user |-> FALSE, cvec |-> <<>>],
      ca |-> [keyword |-> Y_LEAF,      order |-> 9, config |-> 1, user |-> FALSE, cvec |-> <<>>],
      cb |-> [keyword |-> Y_LEAF,      order |-> 10, config |-> 1, user |-> FALSE, cvec |-> <<>>],
      cc |-> [keyword |-> Y_LEAF,      order |-> 11, config |-> 1, user |-> FALSE, cvec |-> <<>>],
      il |-> [keyword |-> Y_LEAF_LIST, order |-> 12, config |-> 1, user |-> FALSE, cvec |-> <<>>],
      dl |-> [keyword |-> Y_LEAF_LIST, order |-> 13, config |-> 1, user |-> FALSE, cvec |-> <<>>],
      top    |-> [keyword |-> Y_CONTAINER, order |-> 0, config |-> 1, user |-> FALSE, cvec |-> <<>>],
      state  |-> [keyword |-> Y_CONTAINER, order |-> 1, config |-> 0, user |-> FALSE, cvec |-> <<>>],
      uentry |-> [keyword |-> Y_LIST,      order |-> 2, config |-> 1, user |-> TRUE,  cvec |-> <<"k">>],
      int8      |-> [keyword |-> Y_LEAF, order |-> 0, config |-> 1, user |-> FALSE, cvec |-> <<>>],
      int16     |-> [keyword |-> Y_LEAF, order |-> 1, config |-> 1, user |-> FALSE, cvec |-> <<>>],
      int32     |-> [keyword |-> Y_LEAF, order |-> 2, config |-> 1, user |-> FALSE, cvec |-> <<>>],
      int64     |-> [keyword |-> Y_LEAF, order |-> 3, config |-> 1, user |-> FALSE, cvec |-> <<>>],
      uint8     |-> [keyword |-> Y_LEAF, order |-> 4, config |-> 1, user |-> FALSE, cvec |-> <<>>],
      uint16    |-> [keyword |-> Y_LEAF, order |-> 5, config |-> 1, user |-> FALSE, cvec |-> <<>>],
      uint32    |-> [keyword |-> Y_LEAF, order |-> 6, config |-> 1, user |-> FALSE, cvec |-> <<>>],
      uint64    |-> [keyword |-> Y_LEAF, order |-> 7, config |-> 1, user |-> FALSE, cvec |-> <<>>],
      decimal64 |-> [keyword |-> Y_LEAF, order |-> 8, config |-> 1, user |-> FALSE, cvec |-> <<>>],
      boolean   |-> [keyword |-> Y_LEAF, order |-> 9, config |-> 1, user |-> FALSE, cvec |-> <<>>],
      unres     |-> [keyword |-> Y_LEAF, order |-> 10, config |-> 1, user |-> FALSE, cvec |-> <<>>],
      example   |-> [keyword |-> "rpc", order |-> 2, config |-> 1, user |-> FALSE, cvec |-> <<>>],
      empty     |-> [keyword |-> "rpc", order |-> 3, config |-> 1, user |-> FALSE, cvec |-> <<>>],
      input     |-> [keyword |-> "input", order |-> 0, config |-> 1, user |-> FALSE, cvec |-> <<>>],
      output    |-> [keyword |-> "output", order |-> 1, config |-> 1, user |-> FALSE, cvec |-> <<>>],
      x         |-> [keyword |-> Y_LEAF, order |-> 0, config |-> 1, user |-> FALSE, cvec |-> <<>>],
      y         |-> [keyword |-> Y_LEAF, order |-> 1, config |-> 1, user |-> FALSE, cvec |-> <<>>] ]

\* the integer types, decimal64 and boolean
NumericTypes ==
    {"int8", "int16", "int32", "int64", "uint8", "uint16", "uint32", "uint64",
     "decimal64", "boolean"}

\* the module a statement is defined in and, for a leaf or leaf-list, its type
YangMore ==
    [ y \in DOMAIN Schema |->
        [ module |-> IF y = "b" THEN "m2" ELSE "m1",
          type |-> CASE y \in {"ll", "x", "y"} -> "uint32"
                     [] y \in {"a", "b", "k"} -> "string"
                     [] y \in {"i", "il"} -> "identityref"
                     [] y = "e" -> "empty"
                     [] y = "dl" -> "decimal64"
                     [] y \in NumericTypes -> y
                     [] OTHER -> NULL,
          fraction |-> IF y = "dl" THEN 1 ELSE 0 ] ]

ys_real_module(y) == YangMore[y].module

yang_type_get(y) == YangMore[y].type

\* the cv type of a leaf or leaf-list: that of its resolved type, a string
\* when the type does not resolve
yang_type2cv(y) ==
    IF yang_type_get(y) \in NumericTypes
    THEN [int8 |-> "CGV_INT8", int16 |-> "CGV_INT16", int32 |-> "CGV_INT32",
          int64 |-> "CGV_INT64", uint8 |-> "CGV_UINT8", uint16 |-> "CGV_UINT16",
          uint32 |-> "CGV_UINT32", uint64 |-> "CGV_UINT64", decimal64 |-> "CGV_DEC64",
          boolean |-> "CGV_BOOL"][yang_type_get(y)]
    ELSE IF yang_type_get(y) = "empty" THEN "CGV_EMPTY"
    ELSE "CGV_STRING"

yang_find_datanode(yparent, name) ==
    IF /\ yparent \in {"top", "state"}
       /\ name \in {"c", "l", "ll", "u", "s", "a", "i", "e", "b", "ca", "cb", "cc", "il", "dl"}
    THEN name
    ELSE IF yparent \in {"l", "u", "s", "uentry"} /\ name = "k" THEN name
    ELSE IF yparent = "c" /\ name \in NumericTypes \cup {"unres"} THEN name
    ELSE IF yparent \in {"input", "output"} /\ name \in {"x", "y"} THEN name
    ELSE NULL

\* yang_find(yn, keyword, NULL): the sub-statement of that keyword
yang_find(yn, keyword) ==
    IF yn = "example" /\ keyword \in {"input", "output"} THEN keyword ELSE NULL

\* the top-level schema node of that name in the module
yang_find_schemanode(ymod, name) ==
    IF ymod = "m1" /\ name \in {"top", "state", "example", "empty"} THEN name ELSE NULL

\* the choice statement a data node lies under, NULL when under none
yang_choice(y) ==
    IF y \in {"ca", "cb"} THEN "ch" ELSE IF y = "cc" THEN "ch2" ELSE NULL

ys_keyword(y) == Schema[y].keyword

yang_order(y) == Schema[y].order

yang_config(y) == Schema[y].config

ordered_by_user(y) == Schema[y].user

ys_cvec(y) == Schema[y].cvec

(***************************************************************************)
(* XML nodes.  id is the node's address; kv gives the body of each key     *)
(* leaf below it, NoBody when that leaf is missing.                        *)
(***************************************************************************)
CX_ELMNT == "elmnt"
CX_ATTR == "attr"
CX_BODY == "body"

KeyNames == {"k"}

NoKeys == [n \in KeyNames |-> NoBody]

Key(b) == [n \in KeyNames |-> b]

Elmnt(i, y, b, kv) == [id |-> i, type |-> CX_ELMNT, name |-> y, spec |-> y, body |-> b, kv |-> kv, cv |-> NoCv]


xml_spec(x) == x.spec

xml_name(x) == x.name

xml_body(x) == x.body

xml_find_body(x, keyname) == x.kv[keyname]

(***************************************************************************)
(* xml_cv_cache: the typed value of a node; x is the node afterwards.      *)
(* A value already on the node is returned as it is; otherwise the body is *)
(* parsed under the type of the node's statement and, when it parses, the  *)
(* value is put on the node.                                               *)
(***************************************************************************)
\* a read that leaves a zero value on the node when the body does not parse
xml_cv_cache_failed(x, body) ==
    IF x.cv # NoCv THEN [retval |-> 0, cv |-> x.cv, x |-> x]
    ELSE IF xml_spec(x) = NULL THEN [retval |-> -1, cv |-> NoCv, x |-> x]
    ELSE LET p == cv_parse1(body, yang_type2cv(xml_spec(x)), YangMore[xml_spec(x)].fraction) IN
         IF p.ok = 0
         THEN [retval |-> -1, cv |-> NoCv,
               x |-> [x EXCEPT !.cv = [type |-> yang_type2cv(xml_spec(x)), num |-> 0, str |-> <<>>]]]
         ELSE [retval |-> 0, cv |-> p.val, x |-> [x EXCEPT !.cv = p.val]]

xml_cv_cache(x, body) ==
    IF x.cv # NoCv THEN [retval |-> 0, cv |-> x.cv, x |-> x]
    ELSE IF xml_spec(x) = NULL THEN [retval |-> -1, cv |-> NoCv, x |-> x]
    ELSE LET p == cv_parse1(body, yang_type2cv(xml_spec(x)), YangMore[xml_spec(x)].fraction) IN
         IF p.ok = 0 THEN [retval |-> -1, cv |-> NoCv, x |-> x]
         ELSE [retval |-> 0, cv |-> p.val, x |-> [x EXCEPT !.cv = p.val]]

(***************************************************************************)
(* xml_cmp: the comparator handed to qsort.                                *)
(***************************************************************************)
RECURSIVE cmp_keys(_, _, _)
cmp_keys(x1, x2, cvk) ==
    IF cvk = <<>> THEN 0
    ELSE LET b1 == xml_find_body(x1, Head(cvk))
             b2 == xml_find_body(x2, Head(cvk))
             equal == strcmp(b1, b2)
         IN IF equal # 0 THEN equal ELSE cmp_keys(x1, x2, Tail(cvk))

\* the comparator reaches the key loop / the typed compare for this pair
cmp_same_stmt(x1, x2) ==
    LET y1 == xml_spec(x1)
        y2 == xml_spec(x2)
    IN /\ y1 # NULL /\ y2 # NULL
       /\ ~(y1 # y2 /\ yang_order(y1) - yang_order(y2) # 0)
       /\ ~(yang_config(y1) = 0 \/ ordered_by_user(y1))

\* strcmp is handed a NULL key body: undefined behaviour
RECURSIVE keys_null(_, _, _)
keys_null(x1, x2, cvk) ==
    IF cvk = <<>> THEN FALSE
    ELSE LET b1 == xml_find_body(x1, Head(cvk))
             b2 == xml_find_body(x2, Head(cvk))
         IN IF b1 = NoBody \/ b2 = NoBody THEN TRUE
            ELSE IF strcmp(b1, b2) # 0 THEN FALSE
            ELSE keys_null(x1, x2, Tail(cvk))

xml_cmp_null(x1, x2) ==
    /\ cmp_same_stmt(x1, x2)
    /\ ys_keyword(xml_spec(x1)) = Y_LIST
    /\ keys_null(x1, x2, ys_cvec(xml_spec(x1)))

xml_cmp_leaf_list(x1, x2) ==
    LET b1 == xml_body(x1)
        b2 == xml_body(x2)
    IN IF b1 = NoBody THEN -1
       ELSE IF b2 = NoBody THEN 1
       ELSE LET c1 == xml_cv_cache(x1, b1)
                c2 == xml_cv_cache(x2, b2)
            IN IF c1.retval < 0 \/ c2.retval < 0 THEN 0
               ELSE cv_cmp(c1.cv, c2.cv)

xml_cmp(x1, x2) ==
    LET y1 == xml_spec(x1)
        y2 == xml_spec(x2)
    IN IF y1 = NULL \/ y2 = NULL THEN 0
       ELSE IF y1 # y2 /\ yang_order(y1) - yang_order(y2) # 0
            THEN yang_order(y1) - yang_order(y2)
       ELSE IF yang_config(y1) = 0 \/ ordered_by_user(y1) THEN 0
       ELSE IF ys_keyword(y1) = Y_LEAF_LIST THEN xml_cmp_leaf_list(x1, x2)
       ELSE IF ys_keyword(y1) = Y_LIST /\ ~xml_cmp_null(x1, x2)
            THEN cmp_keys(x1, x2, ys_cvec(y1))
       ELSE 0

(***************************************************************************)
(* qsort(3).  ISO C 7.22.5: the comparator must order the array            *)
(* consistently, else the behaviour is undefined; elements that compare    *)
(* equal end in unspecified order.                                         *)
(***************************************************************************)
Range(v) == {v[i] : i \in DOMAIN v}

Perms(v) ==
    {p \in [DOMAIN v -> Range(v)] : \A e \in Range(v) : \E i \in DOMAIN v : p[i] = e}

Consistent(v) ==
    /\ \A a \in Range(v) : xml_cmp(a, a) = 0
    /\ \A a, b \in Range(v) : /\ (xml_cmp(a, b) < 0) = (xml_cmp(b, a) > 0)
                              /\ (xml_cmp(a, b) = 0) = (xml_cmp(b, a) = 0)
    /\ \A a, b, c \in Range(v) :
          (xml_cmp(a, b) <= 0 /\ xml_cmp(b, c) <= 0) => xml_cmp(a, c) <= 0

qsort(v) ==
    IF Consistent(v)
    THEN {p \in Perms(v) : \A i, j \in DOMAIN p : i < j => xml_cmp(p[i], p[j]) <= 0}
    ELSE Perms(v)

(***************************************************************************)
(* xml_sort / xml_sort_verify                                              *)
(***************************************************************************)
IsState(ys) == ys # NULL /\ yang_config(ys) = 0


\* a sort that forgets the state-data test
xml_sort_always(ys, v) == qsort(v)

xml_sort(ys, v) == IF IsState(ys) THEN {v} ELSE qsort(v)

xml_sort_null(ys, v) ==
    ~IsState(ys) /\ \E a, b \in Range(v) : a.id # b.id /\ xml_cmp_null(a, b)

xml_sort_verify(ys, v) ==
    IF IsState(ys) THEN 1
    ELSE IF \E i \in DOMAIN v : i > 1 /\ xml_cmp(v[i - 1], v[i]) > 0 THEN -1
    ELSE 0

xml_sort_verify_null(ys, v) ==
    ~IsState(ys) /\ \E i \in DOMAIN v : i > 1 /\ xml_cmp_null(v[i - 1], v[i])

(***************************************************************************)
(* xml_cmp1: one child against a request (name, keyword, keys).            *)
(***************************************************************************)
RECURSIVE match_keys(_, _, _, _)
match_keys(x, keyvec, keyval, match) ==
    IF keyvec = <<>> THEN match
    ELSE LET b == xml_find_body(x, Head(keyvec)) IN
         IF b = NoBody THEN match
         ELSE IF strcmp(Head(keyval), b) # 0 THEN strcmp(Head(keyval), b)
         ELSE match_keys(x, Tail(keyvec), Tail(keyval), 0)

\* the key loop with the operands of strcmp exchanged
RECURSIVE match_keys_swapped(_, _, _, _)
match_keys_swapped(x, keyvec, keyval, match) ==
    IF keyvec = <<>> THEN match
    ELSE LET b == xml_find_body(x, Head(keyvec)) IN
         IF b = NoBody THEN match
         ELSE IF strcmp(b, Head(keyval)) # 0 THEN strcmp(b, Head(keyval))
         ELSE match_keys_swapped(x, Tail(keyvec), Tail(keyval), 0)

xml_cmp1_swapped(x, y, r, uo) ==
    LET state == uo /\ yang_config(y) = 0
        user == uo /\ ordered_by_user(y)
    IN IF r.keyword \in {Y_CONTAINER, Y_LEAF}
       THEN [match |-> strcmp(Ascii[r.name], Ascii[xml_name(x)]), userorder |-> state]
       ELSE IF r.keyword = Y_LEAF_LIST
       THEN [match |-> IF xml_body(x) = NoBody THEN 1 ELSE strcmp(r.keyval[1], xml_body(x)),
             userorder |-> state \/ user]
       ELSE IF r.keyword = Y_LIST
       THEN [match |-> match_keys_swapped(x, r.keyvec, r.keyval, 0), userorder |-> state \/ user]
       ELSE [match |-> 0, userorder |-> state]

\* uo: the caller passes a userorder out-parameter
xml_cmp1(x, y, r, uo) ==
    LET state == uo /\ yang_config(y) = 0
        user == uo /\ ordered_by_user(y)
    IN IF r.keyword \in {Y_CONTAINER, Y_LEAF}
       THEN [match |-> strcmp(Ascii[r.name], Ascii[xml_name(x)]), userorder |-> state]
       ELSE IF r.keyword = Y_LEAF_LIST
       THEN [match |-> IF xml_body(x) = NoBody THEN 1 ELSE strcmp(r.keyval[1], xml_body(x)),
             userorder |-> state \/ user]
       ELSE IF r.keyword = Y_LIST
       THEN [match |-> match_keys(x, r.keyvec, r.keyval, 0), userorder |-> state \/ user]
       ELSE [match |-> 0, userorder |-> state]

(***************************************************************************)
(* xml_search: binary search over the child vector.  Children are indexed  *)
(* from 0 in the code and from 1 here; a result is the 1-based index of    *)
(* the child found, 0 for NULL, with null set when yang_order was handed   *)
(* the NULL statement of an unbound child.                                 *)
(***************************************************************************)
RECURSIVE userorder_up(_, _, _)
userorder_up(v, r, i) ==
    IF i >= Len(v) THEN [x |-> 0, null |-> FALSE]
    ELSE LET xc == v[i + 1]
             y == xml_spec(xc)
         IN IF y = NULL THEN [x |-> 0, null |-> TRUE]
            ELSE IF r.yangi # yang_order(y) THEN [x |-> 0, null |-> FALSE]
            ELSE IF xml_cmp1(xc, y, r, FALSE).match = 0 THEN [x |-> i + 1, null |-> FALSE]
            ELSE userorder_up(v, r, i + 1)

RECURSIVE userorder_down(_, _, _)
userorder_down(v, r, i) ==
    IF i < 0 THEN [x |-> 0, null |-> FALSE]
    ELSE LET xc == v[i + 1]
             y == xml_spec(xc)
         IN IF y = NULL THEN [x |-> 0, null |-> TRUE]
            ELSE IF r.yangi # yang_order(y) THEN [x |-> 0, null |-> FALSE]
            ELSE IF xml_cmp1(xc, y, r, FALSE).match = 0 THEN [x |-> i + 1, null |-> FALSE]
            ELSE userorder_down(v, r, i - 1)

\* xml_search_userorder sweeping forward only
xml_search_userorder_up(v, r, mid) == userorder_up(v, r, mid + 1)

xml_search_userorder(v, r, mid) ==
    LET up == userorder_up(v, r, mid + 1) IN
    IF up.null \/ up.x # 0 THEN up ELSE userorder_down(v, r, mid - 1)

RECURSIVE xml_search1(_, _, _, _)
xml_search1(v, r, low, upper) ==
    IF upper < low THEN [x |-> 0, null |-> FALSE]
    ELSE LET mid == (low + upper) \div 2 IN
         IF mid >= Len(v) THEN [x |-> 0, null |-> FALSE]
         ELSE LET xc == v[mid + 1]
                  y == xml_spec(xc)
              IN IF y = NULL THEN [x |-> 0, null |-> FALSE]
                 ELSE IF r.yangi - yang_order(y) # 0
                 THEN IF r.yangi - yang_order(y) < 0
                      THEN xml_search1(v, r, low, mid - 1)
                      ELSE xml_search1(v, r, mid + 1, upper)
                 ELSE LET c == xml_cmp1(xc, y, r, TRUE) IN
                      IF c.userorder /\ c.match # 0 THEN xml_search_userorder(v, r, mid)
                      ELSE IF c.match = 0 THEN [x |-> mid + 1, null |-> FALSE]
                      ELSE IF c.match < 0 THEN xml_search1(v, r, low, mid - 1)
                      ELSE xml_search1(v, r, mid + 1, upper)

xml_search(v, r) == xml_search1(v, r, 0, Len(v))

(***************************************************************************)
(* xml_insert_pos: the 0-based index at which a new child goes.            *)
(***************************************************************************)
RECURSIVE last_same_name(_, _, _)
last_same_name(v, name, mid) ==
    IF mid + 1 < Len(v) /\ strcmp(Ascii[xml_name(v[mid + 2])], Ascii[name]) = 0
    THEN last_same_name(v, name, mid + 1)
    ELSE mid

RECURSIVE xml_insert_pos(_, _, _, _)
xml_insert_pos(v, r, low, upper) ==
    IF upper < low THEN [pos |-> low, null |-> FALSE]
    ELSE LET mid == (low + upper) \div 2 IN
         IF mid >= Len(v) THEN [pos |-> Len(v), null |-> FALSE]
         ELSE LET xc == v[mid + 1]
                  y == xml_spec(xc)
              IN IF y = NULL THEN [pos |-> 0, null |-> TRUE]
                 ELSE IF r.yangi - yang_order(y) # 0
                 THEN IF r.yangi - yang_order(y) < 0
                      THEN xml_insert_pos(v, r, low, mid - 1)
                      ELSE xml_insert_pos(v, r, mid + 1, upper)
                 ELSE LET c == xml_cmp1(xc, y, r, TRUE) IN
                      IF c.userorder THEN [pos |-> last_same_name(v, r.name, mid), null |-> FALSE]
                      ELSE IF c.match = 0 THEN [pos |-> mid, null |-> FALSE]
                      ELSE IF c.match < 0 THEN xml_insert_pos(v, r, low, mid - 1)
                      ELSE xml_insert_pos(v, r, mid + 1, upper)

(***************************************************************************)
(* The request match_base_child builds from a modification child x1c.      *)
(***************************************************************************)
Req(x1c) ==
    LET yc == xml_spec(x1c) IN
    [ name |-> xml_name(x1c),
      yangi |-> yang_order(yc),
      keyword |-> ys_keyword(yc),
      keyvec |-> IF ys_keyword(yc) = Y_LIST THEN ys_cvec(yc) ELSE <<>>,
      keyval |-> IF ys_keyword(yc) = Y_LIST THEN [i \in DOMAIN ys_cvec(yc) |-> xml_find_body(x1c, ys_cvec(yc)[i])]
                 ELSE IF ys_keyword(yc) = Y_LEAF_LIST THEN <<xml_body(x1c)>>
                 ELSE <<>> ]

\* match_base_child searches only with every key (or the body) of x1c at hand
Searchable(x1c) ==
    LET yc == xml_spec(x1c) IN
    /\ yc # NULL
    /\ ys_keyword(yc) = Y_LEAF_LIST => xml_body(x1c) # NoBody
    /\ ys_keyword(yc) = Y_LIST =>
          \A i \in DOMAIN ys_cvec(yc) : xml_find_body(x1c, ys_cvec(yc)[i]) # NoBody

(***************************************************************************)
(* xml_match: the linear scan.  The result is the 1-based index of the     *)
(* first child that matches, 0 for NULL.                                   *)
(***************************************************************************)
First(S) == IF S = {} THEN 0 ELSE CHOOSE i \in S : \A j \in S : i <= j

xml_match(v, r) ==
    IF r.keyword \in {Y_CONTAINER, Y_LEAF}
    THEN IF Len(r.keyval) # 0 THEN 0
         ELSE First({i \in DOMAIN v : strcmp(Ascii[r.name], Ascii[xml_name(v[i])]) = 0})
    ELSE IF r.keyword = Y_LEAF_LIST
    THEN IF Len(r.keyval) # 1 THEN 0
         ELSE First({i \in DOMAIN v :
                        /\ v[i].type = CX_ELMNT
                        /\ strcmp(Ascii[r.name], Ascii[xml_name(v[i])]) = 0
                        /\ xml_body(v[i]) # NoBody
                        /\ strcmp(xml_body(v[i]), r.keyval[1]) = 0})
    ELSE IF r.keyword = Y_LIST
    THEN First({i \in DOMAIN v :
                   /\ v[i].type = CX_ELMNT
                   /\ strcmp(Ascii[xml_name(v[i])], Ascii[r.name]) = 0
                   /\ r.keyvec # <<>>
                   /\ \A n \in DOMAIN r.keyvec :
                         /\ xml_find_body(v[i], r.keyvec[n]) # NoBody
                         /\ strcmp(xml_find_body(v[i], r.keyvec[n]), r.keyval[n]) = 0})
    ELSE 0

(***************************************************************************)
(* match_base_child(x0, x1c, yc): the base child that matches x1c; yc is   *)
(* the statement of x1c.                                                   *)
(***************************************************************************)
\* match_base_child without the case of a statement under a choice
match_base_child_lexical(v, x1c, yc) ==
    IF ~Searchable(x1c) THEN [x |-> 0, null |-> FALSE]
    ELSE IF v = <<>> \/ xml_spec(v[1]) # NULL THEN xml_search(v, Req(x1c))
    ELSE [x |-> xml_match(v, Req(x1c)), null |-> FALSE]

match_base_child(v, x1c, yc) ==
    IF yang_choice(yc) # NULL
    THEN [x |-> First({i \in DOMAIN v :
                          /\ v[i].type = CX_ELMNT
                          /\ xml_spec(v[i]) # NULL
                          /\ yang_choice(xml_spec(v[i])) # NULL
                          /\ yang_choice(xml_spec(v[i])) = yang_choice(yc)}),
          null |-> FALSE]
    ELSE IF ~Searchable(x1c) THEN [x |-> 0, null |-> FALSE]
    ELSE IF v = <<>> \/ xml_spec(v[1]) # NULL THEN xml_search(v, Req(x1c))
    ELSE [x |-> xml_match(v, Req(x1c)), null |-> FALSE]

(***************************************************************************)
(* Child vectors: sequences of distinct nodes of a pool.                   *)
(***************************************************************************)
Vectors(pool, n) ==
    UNION {{v \in [1..k -> pool] : \A i, j \in 1..k : i # j => v[i].id # v[j].id} : k \in 0..n}

NoReq == [name |-> NULL, yangi |-> -1, keyword |-> NULL, keyvec |-> <<>>, keyval |-> <<>>]

NoDoc == [xml |-> NULL]

NoNode == [id |-> 0, type |-> CX_BODY, name |-> NULL, spec |-> NULL, body |-> NoBody, kv |-> NoKeys, cv |-> NoCv]

(***************************************************************************)
(* Sorting a parent's children.                                            *)
(***************************************************************************)
PoolSort ==
    { Elmnt(1, "ll", Ascii.n10, NoKeys),
      Elmnt(2, "ll", NoBody, NoKeys),
      Elmnt(3, "u", NoBody, Key(Ascii.e1)),
      Elmnt(4, "u", NoBody, Key(Ascii.e0)),
      [id |-> 5, type |-> CX_ATTR, name |-> "xmlns", spec |-> NULL, body |-> NoBody, kv |-> NoKeys, cv |-> NoCv],
      [id |-> 6, type |-> CX_ELMNT, name |-> "z", spec |-> NULL, body |-> NoBody, kv |-> NoKeys, cv |-> NoCv] }

InitSort ==
    /\ x0 \in {"top", "state", "uentry", NULL}
    /\ children \in Vectors(PoolSort, MaxLen)
    /\ before = children
    /\ op = "init"
    /\ ret = 0
    /\ phase = "fresh"
    /\ fault = FALSE
    /\ req = NoReq
    /\ newx = NoNode
    /\ idref = NoDoc
    /\ doc = NoDoc

XmlSort ==
    /\ ~fault
    /\ phase \in {"fresh", "sorted"}
    /\ before' = children
    /\ children' \in xml_sort(x0, children)
    /\ ret' = IF IsState(x0) THEN 1 ELSE 0
    /\ fault' = xml_sort_null(x0, children)
    /\ op' = "sort"
    /\ phase' = IF phase = "fresh" THEN "sorted" ELSE "resorted"
    /\ UNCHANGED <<x0, req, newx, idref, doc>>

XmlSortVerify ==
    /\ ~fault
    /\ op # "verify"
    /\ ret' = xml_sort_verify(x0, children)
    /\ fault' = xml_sort_verify_null(x0, children)
    /\ op' = "verify"
    /\ UNCHANGED <<x0, children, before, phase, req, newx, idref, doc>>

SpecSort == InitSort /\ [][XmlSort \/ XmlSortVerify]_vars

(***************************************************************************)
(* Properties of sorting.                                                  *)
(***************************************************************************)
SortReturned0 == phase # "fresh" /\ ~IsState(x0)

Pos(v, x) == CHOOSE i \in DOMAIN v : v[i].id = x.id

\* C1: once xml_sort has returned 0, xml_sort_verify returns 0 on the same
\* parent, whatever its children are (bound, unbound, attributes, bodies).
C1_VerifyAfterSort == (SortReturned0 /\ op = "verify") => ret = 0

\* C2: xml_sort is stable: two children that xml_cmp reports equal keep
\* their relative order across the call.
C2_SortStable ==
    op = "sort" =>
        \A i, j \in DOMAIN before :
            (i < j /\ xml_cmp(before[i], before[j]) = 0)
                => Pos(children, before[i]) < Pos(children, before[j])

\* C3 as stated: a parent whose own statement is ordered-by user or config
\* false keeps its child vector across xml_sort.
C3_UserOrStateUnchanged ==
    (op = "sort" /\ x0 # NULL /\ (ordered_by_user(x0) \/ yang_config(x0) = 0))
        => children = before

\* C3 as amended: a parent whose own statement is config false keeps its
\* child vector across xml_sort, which returns 1 without sorting.
C3_StateUnchanged ==
    (op = "sort" /\ x0 # NULL /\ yang_config(x0) = 0) => (children = before /\ ret = 1)

\* a config false parent whose children are out of order has been sorted
C3_Witness ==
    /\ op = "sort" /\ x0 # NULL /\ yang_config(x0) = 0
    /\ \E i \in DOMAIN before : i > 1 /\ xml_cmp(before[i - 1], before[i]) > 0

\* C4: sort is idempotent: a second xml_sort leaves the child sequence of
\* the first.
C4_SortIdempotent == (phase = "resorted" /\ op = "sort") => children = before

\* C5: xml_cmp is a strict weak order over the element children of a bound
\* parent: irreflexive and asymmetric, less-than is transitive, and so is
\* compares-equal.
C5_StrictWeakOrder ==
    (x0 # NULL /\ op # "init") =>
        \A a, b, c \in {x \in Range(children) : x.type = CX_ELMNT} :
            /\ xml_cmp(a, a) = 0
            /\ xml_cmp(a, b) < 0 => xml_cmp(b, a) > 0
            /\ (xml_cmp(a, b) < 0 /\ xml_cmp(b, c) < 0) => xml_cmp(a, c) < 0
            /\ (xml_cmp(a, b) = 0 /\ xml_cmp(b, c) = 0) => xml_cmp(a, c) = 0

(***************************************************************************)
(* Searching and inserting in a sorted parent.  The base children come     *)
(* from PoolSearch and are sorted first; the requests are those            *)
(* match_base_child derives from a modification child of PoolNew.          *)
(***************************************************************************)
PoolSearch ==
    { Elmnt(11, "l", NoBody, Key(Ascii.e0)), Elmnt(12, "l", NoBody, Key(Ascii.e1)),
      Elmnt(13, "l", NoBody, Key(Ascii.e2)), Elmnt(14, "l", NoBody, NoKeys),
      Elmnt(15, "ll", Ascii.n9, NoKeys), Elmnt(16, "ll", Ascii.n10, NoKeys),
      Elmnt(17, "u", NoBody, Key(Ascii.e0)), Elmnt(18, "u", NoBody, Key(Ascii.e1)),
      Elmnt(19, "c", NoBody, NoKeys) }

PoolNew ==
    { Elmnt(21, "l", NoBody, Key(Ascii.e0)), Elmnt(22, "l", NoBody, Key(Ascii.e1)),
      Elmnt(23, "l", NoBody, Key(Ascii.e2)), Elmnt(25, "ll", Ascii.n9, NoKeys),
      Elmnt(26, "ll", Ascii.n10, NoKeys), Elmnt(27, "u", NoBody, Key(Ascii.e2)),
      Elmnt(28, "u", NoBody, Key(Ascii.e0)), Elmnt(29, "c", NoBody, NoKeys),
      Elmnt(33, "s", NoBody, Key(Ascii.e0)), Elmnt(37, "cb", NoBody, NoKeys),
      Elmnt(24, "l", NoBody, NoKeys) }

InitSearch ==
    /\ x0 = "top"
    /\ children \in Vectors(PoolSearch, MaxLen) \cup
           \* entries of the ordered-by user list and of the config false list
           Vectors(
            { Elmnt(17, "u", NoBody, Key(Ascii.e0)), Elmnt(18, "u", NoBody, Key(Ascii.e1)),
              Elmnt(20, "u", NoBody, Key(Ascii.e2)), Elmnt(19, "c", NoBody, NoKeys),
              Elmnt(31, "s", NoBody, Key(Ascii.e0)), Elmnt(32, "s", NoBody, Key(Ascii.e1)),
              Elmnt(34, "ca", NoBody, NoKeys), Elmnt(35, "cc", NoBody, NoKeys) },
               MaxLen)
    /\ before = children
    /\ op = "init"
    /\ ret = 0
    /\ phase = "fresh"
    /\ fault = FALSE
    /\ req = NoReq
    /\ newx = NoNode
    /\ idref = NoDoc
    /\ doc = NoDoc

XmlSearch ==
    /\ ~fault
    /\ phase = "sorted" /\ op = "sort"
    /\ \E x1c \in {n \in PoolNew : Searchable(n)} :
          /\ newx' = x1c
          /\ req' = Req(x1c)
          /\ ret' = xml_search(children, Req(x1c)).x
          /\ fault' = xml_search(children, Req(x1c)).null
    /\ op' = "search"
    /\ UNCHANGED <<x0, children, before, phase, idref, doc>>

XmlInsert ==
    /\ ~fault
    /\ phase = "sorted" /\ op = "sort"
    /\ \E x \in {n \in PoolNew : Searchable(n)} :
          LET r == xml_insert_pos(children, Req(x), 0, Len(children)) IN
          /\ newx' = x
          /\ req' = Req(x)
          /\ ret' = r.pos
          /\ fault' = r.null
          /\ children' = IF r.null THEN children ELSE SubSeq(children, 1, r.pos) \o <<x>>
                              \o SubSeq(children, r.pos + 1, Len(children))
    /\ before' = children
    /\ op' = "insert"
    /\ phase' = "inserted"
    /\ UNCHANGED <<x0, idref, doc>>

MatchBaseChild ==
    /\ ~fault
    /\ phase = "sorted" /\ op = "sort"
    /\ \E x1c \in PoolNew :
          /\ newx' = x1c
          /\ req' = Req(x1c)
          /\ ret' = match_base_child(children, x1c, xml_spec(x1c)).x
          /\ fault' = match_base_child(children, x1c, xml_spec(x1c)).null
    /\ op' = "match"
    /\ UNCHANGED <<x0, children, before, phase, idref, doc>>

SpecSearch == InitSearch /\ [][XmlSort \/ XmlSearch \/ XmlInsert \/ MatchBaseChild]_vars

(***************************************************************************)
(* Properties of searching and inserting.                                  *)
(***************************************************************************)
Sorted == xml_sort_verify(x0, children) = 0 /\ ~xml_sort_verify_null(x0, children)

Satisfies(xc, r) ==
    /\ xml_name(xc) = r.name
    /\ r.keyword = Y_LEAF_LIST => xml_body(xc) = r.keyval[1]
    /\ r.keyword = Y_LIST =>
          \A i \in DOMAIN r.keyvec :
              /\ xml_find_body(xc, r.keyvec[i]) # NoBody
              /\ xml_find_body(xc, r.keyvec[i]) = r.keyval[i]

\* C6: in a parent whose children are sorted, xml_search returns NULL or a
\* child with the requested name that satisfies the keyword's predicate: a
\* leaf-list entry with the requested body, a list entry in which every
\* requested key leaf is present with the requested value.
C6_SearchSound ==
    (op = "search" /\ ~fault /\ Sorted /\ ret # 0) => Satisfies(children[ret], req)

AllKeyedL(v) ==
    /\ v # <<>>
    /\ \A i \in DOMAIN v : xml_spec(v[i]) = "l" /\ Searchable(v[i])

KeyAscending(v) ==
    \A i, j \in DOMAIN v : i < j => strcmp(v[i].kv["k"], v[j].kv["k"]) < 0

\* C7: when every child is a keyed entry of the one config list, xml_sort
\* leaves the entries in ascending key order, and xml_search with the key
\* values of an existing entry returns exactly that entry.
C7_ListSortedAndFound ==
    (phase = "sorted" /\ AllKeyedL(children)) =>
        /\ KeyAscending(children)
        /\ op = "search" =>
              \A i \in DOMAIN children :
                  <<xml_find_body(children[i], "k")>> = req.keyval /\ req.name = "l"
                      => ret = i

C7_Witness ==
    /\ phase = "sorted"
    /\ op = "search"
    /\ Len(children) = 3
    /\ AllKeyedL(children)
    /\ <<before[1].id, before[2].id, before[3].id>> = <<13, 11, 12>>
    /\ req.keyval = <<Ascii.e1>>
    /\ ret = 2

\* C8: inserting x at the index xml_insert_pos returns for a sorted vector
\* gives a child sequence that appending x and calling xml_sort gives.
C8_InsertIsAppendSort ==
    (op = "insert" /\ ~fault /\ xml_sort_verify(x0, before) = 0
       /\ ~xml_sort_null(x0, Append(before, newx))
       /\ Consistent(Append(before, newx)))
        => children \in xml_sort(x0, Append(before, newx))

\* the 1-based indexes of the children named name
Named(v, name) == {i \in DOMAIN v : xml_name(v[i]) = name}

Last(S) == CHOOSE i \in S : \A j \in S : j <= i

\* C21: where the sorted parent has entries of the ordered-by user list of
\* the new entry, xml_insert_pos returns the index of the last of them plus
\* one, and the new entry goes behind the last of them.
C21_InsertBehindRun ==
    (/\ op = "insert" /\ ~fault
     /\ xml_sort_verify(x0, before) = 0 /\ ~xml_sort_verify_null(x0, before)
     /\ ordered_by_user(xml_spec(newx))
     /\ Named(before, xml_name(newx)) # {}) =>
        /\ ret = (Last(Named(before, xml_name(newx))) - 1) + 1
        /\ children = SubSeq(before, 1, ret) \o <<newx>> \o SubSeq(before, ret + 1, Len(before))
        /\ Last(Named(children, xml_name(newx))) = ret + 1

C23_LeafListFound ==
    (op = "search" /\ ~fault /\ Sorted /\ req.keyword = Y_LEAF_LIST) =>
        \A i \in DOMAIN children :
            (xml_name(children[i]) = req.name /\ xml_body(children[i]) = req.keyval[1])
                => ret = i

\* C24: in a sorted parent the binary search and the linear scan give the
\* same base child for a modification child that is not under a choice.
C24_SearchIsMatch ==
    (op = "match" /\ ~fault /\ Sorted /\ yang_choice(xml_spec(newx)) = NULL
       /\ Searchable(newx)) =>
        /\ xml_search(children, req).x = xml_match(children, req)
        /\ ret = xml_match(children, req)

NoPrefix == <<-1>>      \* a NULL prefix

Modules ==
    [ m1 |-> [namespace |-> Ascii.ns1, prefix |-> Ascii.p1, imports |-> {<<Ascii.i2, "m2">>}],
      m2 |-> [namespace |-> Ascii.ns2, prefix |-> Ascii.p2, imports |-> {}],
      m3 |-> [namespace |-> Ascii.ns3, prefix |-> Ascii.p3, imports |-> {}] ]

\* index of the first colon of a string, 0 when it has none
RECURSIVE ColonAt(_, _)
ColonAt(body, i) ==
    IF i > Len(body) THEN 0 ELSE IF body[i] = 58 THEN i ELSE ColonAt(body, i + 1)

nodeid_split(body) ==
    LET c == ColonAt(body, 1) IN
    IF c = 0 THEN [prefix |-> NoPrefix, id |-> body]
    ELSE [prefix |-> SubSeq(body, 1, c - 1), id |-> SubSeq(body, c + 1, Len(body))]

yang_find_module_by_name(name) ==
    IF \E mod \in DOMAIN Modules : Ascii[mod] = name
    THEN CHOOSE mod \in DOMAIN Modules : Ascii[mod] = name
    ELSE NULL

yang_find_mynamespace(ymod) == Modules[ymod].namespace

yang_find_myprefix(ymod) == Modules[ymod].prefix

yang_find_module_by_namespace(ns) ==
    IF \E mod \in DOMAIN Modules : Modules[mod].namespace = ns
    THEN CHOOSE mod \in DOMAIN Modules : Modules[mod].namespace = ns
    ELSE NULL

yang_find_module_by_prefix_yspec(prefix) ==
    IF \E mod \in DOMAIN Modules : Modules[mod].prefix = prefix
    THEN CHOOSE mod \in DOMAIN Modules : Modules[mod].prefix = prefix
    ELSE NULL

\* the prefix under which module my names the namespace: its own, or an import's
yang_find_prefix_by_namespace(my, ns) ==
    IF Modules[my].namespace = ns THEN [found |-> 1, prefix |-> Modules[my].prefix]
    ELSE IF \E i \in Modules[my].imports : Modules[i[2]].namespace = ns
    THEN [found |-> 1,
          prefix |-> (CHOOSE i \in Modules[my].imports : Modules[i[2]].namespace = ns)[1]]
    ELSE [found |-> 0, prefix |-> NoPrefix]

\* bindings in scope at the leaf: its own xmlns attributes, then its ancestors'
xml_nsctx_node(lf) ==
    lf.attrs \cup {b \in lf.inherited : \A a \in lf.attrs : a[1] # b[1]}

xml_nsctx_get_prefix(nsc, ns) ==
    IF \E b \in nsc : b[2] = ns
    THEN [found |-> TRUE, prefix |-> (CHOOSE b \in nsc : b[2] = ns)[1]]
    ELSE [found |-> FALSE, prefix |-> NoPrefix]

xml2ns(lf, prefix) ==
    LET nsc == xml_nsctx_node(lf) IN
    IF \E b \in nsc : b[1] = prefix THEN (CHOOSE b \in nsc : b[1] = prefix)[2] ELSE NoBody

\* the leaf with the body and the xmlns attribute the decoder leaves, and retval
json2xml_decode_identityref(lf) ==
    LET sp == nodeid_split(lf.body)
        ymod == yang_find_module_by_name(sp.prefix)
    IN IF lf.body = NoBody \/ sp.prefix = NoPrefix THEN [retval |-> 1, leaf |-> lf]
       ELSE IF ymod = NULL THEN [retval |-> 0, leaf |-> lf]
       ELSE LET ns == yang_find_mynamespace(ymod)
                inctx == xml_nsctx_get_prefix(xml_nsctx_node(lf), ns)
                imp == yang_find_prefix_by_namespace(lf.module, ns)
                prefix2 == IF inctx.found THEN inctx.prefix
                           ELSE IF imp.prefix # NoPrefix THEN imp.prefix
                           ELSE yang_find_myprefix(ymod)
            IN IF ~inctx.found /\ imp.found = 0 /\ ~lf.kludge
               THEN [retval |-> 0, leaf |-> lf]
               ELSE [retval |-> 1,
                     leaf |-> [lf EXCEPT
                        !.attrs = IF inctx.found THEN @ ELSE @ \cup {<<prefix2, ns>>},
                        !.body = IF prefix2 # NoPrefix THEN prefix2 \o Ascii.colon \o sp.id
                                 ELSE sp.id]]

\* an encoder that never qualifies the identity
xml2json_encode_identityref_plain(lf) == nodeid_split(lf.body).id

xml2json_encode_identityref(lf) ==
    LET sp == nodeid_split(lf.body)
        ns == xml2ns(lf, sp.prefix)
        bypfx == yang_find_module_by_prefix_yspec(sp.prefix)
        ymod == yang_find_module_by_namespace(ns)
    IN IF lf.kludge /\ ns = NoBody
       THEN IF bypfx # NULL THEN Ascii[bypfx] \o Ascii.colon \o sp.id ELSE sp.id
       ELSE IF ymod # NULL
       THEN IF ymod = lf.module THEN sp.id ELSE Ascii[ymod] \o Ascii.colon \o sp.id
       ELSE sp.id

(***************************************************************************)
(* One identityref leaf of module m1 or m2, as the JSON parser leaves it:  *)
(* the default namespace is the leaf's module's; an ancestor may bind a    *)
(* prefix to another module's namespace.                                   *)
(***************************************************************************)
InitIdref ==
    /\ x0 = NULL
    /\ children = <<>>
    /\ before = <<>>
    /\ op = "init"
    /\ ret = 0
    /\ phase = "fresh"
    /\ fault = FALSE
    /\ req = NoReq
    /\ newx = NoNode
    /\ doc = NoDoc
    /\ \E mod \in {"m1", "m2"}, k \in BOOLEAN,
          b \in {Ascii[i] : i \in {"ida", "idb"}}
                    \cup {Ascii[jm] \o Ascii.colon \o Ascii[i] :
                             jm \in DOMAIN Modules \cup {"zz"}, i \in {"ida", "idb"}},
          anc \in {{}, {<<Ascii.x2, Ascii.ns2>>}, {<<Ascii.x3, Ascii.ns3>>}} :
          idref = [ module |-> mod, json |-> b, body |-> b, attrs |-> {},
                    inherited |-> {<<NoPrefix, Modules[mod].namespace>>} \cup anc,
                    kludge |-> k, out |-> <<>> ]

IdrefDecode ==
    /\ op = "init"
    /\ idref' = json2xml_decode_identityref(idref).leaf
    /\ ret' = json2xml_decode_identityref(idref).retval
    /\ op' = "decode"
    /\ UNCHANGED <<x0, children, before, phase, fault, req, newx, doc>>

IdrefEncode ==
    /\ op = "decode"
    /\ ret = 1
    /\ idref' = [idref EXCEPT !.out = xml2json_encode_identityref(idref)]
    /\ ret' = 0
    /\ op' = "encode"
    /\ UNCHANGED <<x0, children, before, phase, fault, req, newx, doc>>

SpecIdref == InitIdref /\ [][IdrefDecode \/ IdrefEncode]_vars

(***************************************************************************)
(* Properties of the identityref round trip.                               *)
(***************************************************************************)
JsonPrefix == nodeid_split(idref.json).prefix

JsonModule == yang_find_module_by_name(JsonPrefix)

JsonId == nodeid_split(idref.json).id

KnownModule == JsonPrefix # NoPrefix /\ JsonModule # NULL

\* a prefix (not the default namespace) is bound to the identity module's namespace
PrefixBound ==
    \E b \in idref.inherited : b[1] # NoPrefix /\ b[2] = Modules[JsonModule].namespace

Synthesized ==
    \E pfx \in {Ascii.i2, Ascii.p1, Ascii.p2, Ascii.p3} :
        /\ idref.attrs = {<<pfx, Modules[JsonModule].namespace>>}
        /\ idref.body = pfx \o Ascii.colon \o JsonId

XElmnt(prefix, name, spec, ch) ==
    [type |-> CX_ELMNT, prefix |-> prefix, name |-> name, spec |-> spec,
     value |-> NoBody, children |-> ch]

XAttr(prefix, name, value) ==
    [type |-> CX_ATTR, prefix |-> prefix, name |-> name, spec |-> NULL,
     value |-> value, children |-> <<>>]

XBody(value) ==
    [type |-> CX_BODY, prefix |-> NULL, name |-> "body", spec |-> NULL,
     value |-> value, children |-> <<>>]

NoX == [type |-> "none", prefix |-> NULL, name |-> NULL, spec |-> NULL,
        value |-> NoBody, children |-> <<>>]

xml_child_i(x, i) == IF i + 1 \in DOMAIN x.children THEN x.children[i + 1] ELSE NoX

NotAttr(xc) == xc.type # CX_ATTR

xml_child_nr_notype(x) == Len(SelectSeq(x.children, NotAttr))

\* value of the attribute xmlns of x itself, NoBody without one
xml_find_type_value(x) ==
    IF \E j \in DOMAIN x.children :
          ~NotAttr(x.children[j]) /\ x.children[j].name = "xmlns" /\ x.children[j].prefix = NULL
    THEN x.children[CHOOSE j \in DOMAIN x.children :
          ~NotAttr(x.children[j]) /\ x.children[j].name = "xmlns" /\ x.children[j].prefix = NULL].value
    ELSE NoBody

\* the xmlns bindings x declares, over those it inherits
Bindings(x) ==
    {<<IF x.children[j].prefix = NULL THEN NoPrefix ELSE Ascii[x.children[j].name],
       x.children[j].value>> :
        j \in {h \in DOMAIN x.children :
                 /\ ~NotAttr(x.children[h])
                 /\ \/ x.children[h].prefix = "xmlns"
                    \/ x.children[h].prefix = NULL /\ x.children[h].name = "xmlns"}}

NsDown(x, nsc) == Bindings(x) \cup {b \in nsc : \A a \in Bindings(x) : a[1] # b[1]}


\* child_type taking an element without children for an object
child_type_object(x) ==
    LET clen == xml_child_nr_notype(x) IN
    IF x.type # CX_ELMNT THEN "n/a"
    ELSE IF clen # 1 THEN "ANY_CHILD"
    ELSE LET xc == SelectSeq(x.children, NotAttr)[1] IN
         IF xml_child_nr_notype(xc) = 0 /\ xc.type = CX_BODY THEN "BODY_CHILD" ELSE "ANY_CHILD"

child_type(x) ==
    LET clen == xml_child_nr_notype(x) IN
    IF x.type # CX_ELMNT THEN "n/a"
    ELSE IF clen = 0 THEN "NULL_CHILD"
    ELSE IF clen > 1 THEN "ANY_CHILD"
    ELSE LET xc == SelectSeq(x.children, NotAttr)[1] IN
         IF xml_child_nr_notype(xc) = 0 /\ xc.type = CX_BODY THEN "BODY_CHILD" ELSE "ANY_CHILD"


\* x and its neighbour are elements of one name and one xmlns attribute value
SameArray(x, xn) ==
    /\ xn.type = CX_ELMNT
    /\ strcmp(Ascii[x.name], Ascii[xn.name]) = 0
    /\ xml_find_type_value(x) = xml_find_type_value(xn)

\* array_eval comparing the previous sibling by name only
array_eval_prevname(xprev, x, xnext) ==
    LET eqnext == SameArray(x, xnext)
        eqprev == xprev.type = CX_ELMNT /\ strcmp(Ascii[x.name], Ascii[xprev.name]) = 0
    IN IF x.type # CX_ELMNT THEN "BODY_ARRAY"
       ELSE IF eqprev /\ eqnext THEN "MIDDLE_ARRAY"
       ELSE IF eqprev THEN "LAST_ARRAY"
       ELSE IF eqnext THEN "FIRST_ARRAY"
       ELSE IF x.spec # NULL /\ ys_keyword(x.spec) = Y_LIST THEN "SINGLE_ARRAY"
       ELSE "NO_ARRAY"

array_eval(xprev, x, xnext) ==
    LET eqnext == SameArray(x, xnext)
        eqprev == SameArray(x, xprev)
    IN IF x.type # CX_ELMNT THEN "BODY_ARRAY"
       ELSE IF eqprev /\ eqnext THEN "MIDDLE_ARRAY"
       ELSE IF eqprev THEN "LAST_ARRAY"
       ELSE IF eqnext THEN "FIRST_ARRAY"
       ELSE IF x.spec # NULL /\ ys_keyword(x.spec) = Y_LIST THEN "SINGLE_ARRAY"
       ELSE "NO_ARRAY"

\* a token: Tok("name", mod, name, <<>>), Tok("string" or "raw", NULL, NULL, v)
Tok(t, mod, name, v) == [t |-> t, mod |-> mod, name |-> name, v |-> v]

CDataOpen == <<60, 33, 91, 67, 68, 65, 84, 65, 91>>     \* <![CDATA[

CDataClose == <<93, 93, 62>>                             \* ]]>

\* strncmp(&str[i], lit, strlen(lit)) == 0, i counted from 1
StartsWith(str, i, lit) ==
    /\ i + Len(lit) - 1 <= Len(str)
    /\ SubSeq(str, i, i + Len(lit) - 1) = lit

RECURSIVE json_str_escape_cdata(_, _, _)
\* an escaper that takes ]]> for the end of a section wherever it stands
json_str_escape_cdata_close(str, i, esc) ==
    IF i > Len(str) THEN <<>>
    ELSE IF str[i] = 10 THEN <<92, 110>> \o json_str_escape_cdata(str, i + 1, esc)
    ELSE IF str[i] = 34 THEN <<92, 34>> \o json_str_escape_cdata(str, i + 1, esc)
    ELSE IF str[i] = 92 THEN <<92, 92>> \o json_str_escape_cdata(str, i + 1, esc)
    ELSE IF str[i] = 60 /\ ~esc /\ StartsWith(str, i, CDataOpen)
    THEN json_str_escape_cdata(str, i + Len(CDataOpen), TRUE)
    ELSE IF str[i] = 93 /\ StartsWith(str, i, CDataClose)
    THEN json_str_escape_cdata(str, i + Len(CDataClose), FALSE)
    ELSE <<str[i]>> \o json_str_escape_cdata(str, i + 1, esc)

json_str_escape_cdata(str, i, esc) ==
    IF i > Len(str) THEN <<>>
    ELSE IF str[i] = 10 THEN <<92, 110>> \o json_str_escape_cdata(str, i + 1, esc)
    ELSE IF str[i] = 34 THEN <<92, 34>> \o json_str_escape_cdata(str, i + 1, esc)
    ELSE IF str[i] = 92 THEN <<92, 92>> \o json_str_escape_cdata(str, i + 1, esc)
    ELSE IF str[i] = 60 /\ ~esc /\ StartsWith(str, i, CDataOpen)
    THEN json_str_escape_cdata(str, i + Len(CDataOpen), TRUE)
    ELSE IF str[i] = 93 /\ esc /\ StartsWith(str, i, CDataClose)
    THEN json_str_escape_cdata(str, i + Len(CDataClose), FALSE)
    ELSE <<str[i]>> \o json_str_escape_cdata(str, i + 1, esc)

\* xml2json_encode printing every leaf body without quotes
xml2json_encode_unquoted(xb, xp, ctx) == <<Tok("raw", NULL, NULL, xb.value)>>

\* xml2json_encode printing every leaf body between quotes
xml2json_encode_quoted(xb, xp, ctx) ==
    <<Tok("string", NULL, NULL, json_str_escape_cdata(xb.value, 1, FALSE))>>

\* the tokens printed for body xb of element xp; ctx: bindings in scope and build flag
xml2json_encode(xb, xp, ctx) ==
    IF xp.type # CX_ELMNT \/ xp.spec = NULL
    THEN <<Tok("string", NULL, NULL, json_str_escape_cdata(xb.value, 1, FALSE))>>
    ELSE IF ys_keyword(xp.spec) \notin {Y_LEAF, Y_LEAF_LIST}
    THEN <<Tok("string", NULL, NULL, json_str_escape_cdata(xb.value, 1, FALSE))>>
    ELSE IF yang_type2cv(xp.spec) = "CGV_STRING"
    THEN IF yang_type_get(xp.spec) # NULL /\ yang_type_get(xp.spec) = "identityref"
         THEN <<Tok("string", NULL, NULL,
                    json_str_escape_cdata(
                        xml2json_encode_identityref(
                            [module |-> ys_real_module(xp.spec), body |-> xb.value,
                             attrs |-> {}, inherited |-> ctx.nsc, kludge |-> ctx.kludge]),
                        1, FALSE))>>
         ELSE <<Tok("string", NULL, NULL, json_str_escape_cdata(xb.value, 1, FALSE))>>
    ELSE IF yang_type2cv(xp.spec) \in
               {"CGV_INT8", "CGV_INT16", "CGV_INT32", "CGV_INT64", "CGV_UINT8", "CGV_UINT16",
                "CGV_UINT32", "CGV_UINT64", "CGV_DEC64", "CGV_BOOL"}
    THEN <<Tok("raw", NULL, NULL, xb.value)>>
    ELSE <<Tok("string", NULL, NULL, json_str_escape_cdata(xb.value, 1, FALSE))>>

ArrayHead(x, arraytype, childt, modname) ==
    LET open == IF childt = "NULL_CHILD" THEN <<Tok("null", NULL, NULL, <<>>)>>
                ELSE IF childt = "ANY_CHILD" THEN <<Tok("{", NULL, NULL, <<>>)>>
                ELSE <<>>
    IN IF arraytype = "NO_ARRAY"
       THEN <<Tok("name", modname, x.name, <<>>)>> \o
            (IF childt = "NULL_CHILD"
             THEN IF x.spec # NULL /\ ys_keyword(x.spec) = Y_CONTAINER
                  THEN <<Tok("{", NULL, NULL, <<>>), Tok("}", NULL, NULL, <<>>)>>
                  ELSE IF x.spec # NULL /\ ys_keyword(x.spec) \in {Y_LEAF, Y_LEAF_LIST}
                  THEN <<Tok("[", NULL, NULL, <<>>), Tok("null", NULL, NULL, <<>>), Tok("]", NULL, NULL, <<>>)>>
                  ELSE <<Tok("null", NULL, NULL, <<>>)>>
             ELSE IF childt = "ANY_CHILD" THEN <<Tok("{", NULL, NULL, <<>>)>>
             ELSE <<>>)
       ELSE IF arraytype \in {"FIRST_ARRAY", "SINGLE_ARRAY"}
       THEN <<Tok("name", modname, x.name, <<>>), Tok("[", NULL, NULL, <<>>)>> \o open
       ELSE IF arraytype \in {"MIDDLE_ARRAY", "LAST_ARRAY"} THEN open
       ELSE <<>>

ArrayTail(arraytype, childt) ==
    LET close == IF childt = "ANY_CHILD" THEN <<Tok("}", NULL, NULL, <<>>)>> ELSE <<>>
    IN IF arraytype \in {"NO_ARRAY", "FIRST_ARRAY", "MIDDLE_ARRAY"} THEN close
       ELSE IF arraytype \in {"SINGLE_ARRAY", "LAST_ARRAY"} THEN close \o <<Tok("]", NULL, NULL, <<>>)>>
       ELSE <<>>

RECURSIVE xml2json1_cbuf(_, _, _, _, _)
RECURSIVE xml2json1_children(_, _, _, _, _)
\* xml2json1_cbuf handing its own modname0 on to the children
xml2json1_cbuf_sameanc(x, xp, arraytype, modname0, ctx) ==
    LET ys == x.spec
        changes == ys # NULL /\ ~(modname0 # NULL /\ ys_real_module(ys) = modname0)
        modname == IF changes THEN ys_real_module(ys) ELSE NULL
        childt == child_type(x)
    IN IF arraytype = "BODY_ARRAY" THEN xml2json_encode(x, xp, ctx)
       ELSE ArrayHead(x, arraytype, childt, modname)
            \o xml2json1_children(x, 0, xml_child_nr_notype(x) - 1, modname0,
                                  [ctx EXCEPT !.nsc = NsDown(x, @)])
            \o ArrayTail(arraytype, childt)

xml2json1_cbuf(x, xp, arraytype, modname0, ctx) ==
    LET ys == x.spec
        changes == ys # NULL /\ ~(modname0 # NULL /\ ys_real_module(ys) = modname0)
        modname == IF changes THEN ys_real_module(ys) ELSE NULL
        modname1 == IF changes THEN ys_real_module(ys) ELSE modname0
        childt == child_type(x)
    IN IF arraytype = "BODY_ARRAY" THEN xml2json_encode(x, xp, ctx)
       ELSE ArrayHead(x, arraytype, childt, modname)
            \o xml2json1_children(x, 0, xml_child_nr_notype(x) - 1, modname1,
                                  [ctx EXCEPT !.nsc = NsDown(x, @)])
            \o ArrayTail(arraytype, childt)

\* the loop over the children of x from index i on
xml2json1_children(x, i, commas, modname0, ctx) ==
    IF i >= Len(x.children) THEN <<>>
    ELSE LET xc == xml_child_i(x, i) IN
         IF xc.type = CX_ATTR THEN xml2json1_children(x, i + 1, commas, modname0, ctx)
         ELSE xml2json1_cbuf(xc, x,
                             array_eval(IF i # 0 THEN xml_child_i(x, i - 1) ELSE NoX,
                                        xc, xml_child_i(x, i + 1)),
                             modname0, ctx)
              \o (IF commas > 0 THEN <<Tok(",", NULL, NULL, <<>>)>> ELSE <<>>)
              \o xml2json1_children(x, i + 1, IF commas > 0 THEN commas - 1 ELSE commas,
                                    modname0, ctx)

\* xml2json_cbuf starting with an ancestor module
xml2json_cbuf_anc(x, kludge) ==
    <<Tok("{", NULL, NULL, <<>>)>>
        \o xml2json1_cbuf(x, NoX, "NO_ARRAY", "m1", [nsc |-> {}, kludge |-> kludge])
        \o <<Tok("}", NULL, NULL, <<>>)>>

xml2json_cbuf(x, kludge) ==
    <<Tok("{", NULL, NULL, <<>>)>>
        \o xml2json1_cbuf(x, NoX, "NO_ARRAY", NULL, [nsc |-> {}, kludge |-> kludge])
        \o <<Tok("}", NULL, NULL, <<>>)>>

(***************************************************************************)
(* The JSON parser: a recursive descent over the tokens that builds, for   *)
(* a member "mod:name", one element name with prefix mod per value (one    *)
(* per item of an array), a body for a string or a number and no child     *)
(* for null.  i is the index of the next token; a result is the elements   *)
(* built and the index after them, ok FALSE on a syntax error.             *)
(***************************************************************************)
RECURSIVE json_unescape(_, _)
json_unescape(v, i) ==
    IF i > Len(v) THEN <<>>
    ELSE IF v[i] = 92 /\ i < Len(v)
    THEN <<IF v[i + 1] = 110 THEN 10 ELSE v[i + 1]>> \o json_unescape(v, i + 2)
    ELSE <<v[i]>> \o json_unescape(v, i + 1)

SyntaxError == [ok |-> FALSE, nodes |-> <<>>, next |-> 0]

Parsed(nodes, next) == [ok |-> TRUE, nodes |-> nodes, next |-> next]

TokAt(toks, i) == IF i \in DOMAIN toks THEN toks[i] ELSE Tok("eof", NULL, NULL, <<>>)

RECURSIVE json_value(_, _, _, _)
RECURSIVE json_members(_, _)
RECURSIVE json_items(_, _, _, _)
json_value(toks, i, mod, name) ==
    LET tk == TokAt(toks, i) IN
    IF tk.t = "{"
    THEN LET r == json_members(toks, i + 1) IN
         IF r.ok THEN Parsed(<<XElmnt(mod, name, NULL, r.nodes)>>, r.next) ELSE SyntaxError
    ELSE IF tk.t = "[" THEN json_items(toks, i + 1, mod, name)
    ELSE IF tk.t = "string"
    THEN Parsed(<<XElmnt(mod, name, NULL, <<XBody(json_unescape(tk.v, 1))>>)>>, i + 1)
    ELSE IF tk.t = "raw"
    THEN IF cv_parse1(tk.v, "CGV_UINT32", 0).ok = 1
         THEN Parsed(<<XElmnt(mod, name, NULL, <<XBody(tk.v)>>)>>, i + 1)
         ELSE SyntaxError
    ELSE IF tk.t = "null" THEN Parsed(<<XElmnt(mod, name, NULL, <<>>)>>, i + 1)
    ELSE SyntaxError

\* the members of an object, from the token after its { to its }
json_members(toks, i) ==
    LET tk == TokAt(toks, i) IN
    IF tk.t = "}" THEN Parsed(<<>>, i + 1)
    ELSE IF tk.t # "name" THEN SyntaxError
    ELSE LET r == json_value(toks, i + 1, tk.mod, tk.name) IN
         IF ~r.ok THEN SyntaxError
         ELSE IF TokAt(toks, r.next).t = "}" THEN Parsed(r.nodes, r.next + 1)
         ELSE IF TokAt(toks, r.next).t = "," /\ TokAt(toks, r.next + 1).t = "name"
         THEN LET q == json_members(toks, r.next + 1) IN
              IF q.ok THEN Parsed(r.nodes \o q.nodes, q.next) ELSE SyntaxError
         ELSE SyntaxError

\* the items of an array, from the token after its [ to its ]
json_items(toks, i, mod, name) ==
    LET tk == TokAt(toks, i) IN
    IF tk.t = "]" THEN Parsed(<<>>, i + 1)
    ELSE LET r == json_value(toks, i, mod, name) IN
         IF ~r.ok THEN SyntaxError
         ELSE IF TokAt(toks, r.next).t = "]" THEN Parsed(r.nodes, r.next + 1)
         ELSE IF TokAt(toks, r.next).t = "," /\ TokAt(toks, r.next + 1).t # "]"
         THEN LET q == json_items(toks, r.next + 1, mod, name) IN
              IF q.ok THEN Parsed(r.nodes \o q.nodes, q.next) ELSE SyntaxError
         ELSE SyntaxError

clixon_json_parseparse(toks) ==
    IF TokAt(toks, 1).t # "{" THEN SyntaxError
    ELSE LET r == json_members(toks, 2) IN
         IF r.ok /\ r.next = Len(toks) + 1 THEN r ELSE SyntaxError

(***************************************************************************)
(* After the parse: module names to default namespaces, statements bound,  *)
(* identityrefs decoded, every child vector sorted.                        *)
(***************************************************************************)
\* give x the default namespace ns: nothing to add when it is inherited
xml_namespace_change(x, ns, dflt) ==
    IF dflt = ns THEN [x EXCEPT !.prefix = NULL]
    ELSE [x EXCEPT !.prefix = NULL, !.children = Append(@, XAttr(NULL, "xmlns", ns))]

RECURSIVE json_xmlns_translate(_, _)
RECURSIVE json_xmlns_translate_children(_, _, _)
\* dflt: the default namespace x inherits
json_xmlns_translate(x, dflt) ==
    LET ymod == IF x.prefix = NULL THEN NULL ELSE yang_find_module_by_name(Ascii[x.prefix])
        x1 == IF x.prefix = NULL THEN x
              ELSE xml_namespace_change(x, yang_find_mynamespace(ymod), dflt)
        dflt1 == IF x.prefix = NULL THEN dflt ELSE yang_find_mynamespace(ymod)
        r == json_xmlns_translate_children(x1.children, 1, dflt1)
    IN IF x.prefix # NULL /\ ymod = NULL THEN [retval |-> 0, x |-> x]
       ELSE [retval |-> r.retval, x |-> [x1 EXCEPT !.children = r.children]]

json_xmlns_translate_children(ch, j, dflt) ==
    IF j > Len(ch) THEN [retval |-> 1, children |-> ch]
    ELSE IF ch[j].type # CX_ELMNT THEN json_xmlns_translate_children(ch, j + 1, dflt)
    ELSE LET r == json_xmlns_translate(ch[j], dflt) IN
         IF r.retval = 0 THEN [retval |-> 0, children |-> [ch EXCEPT ![j] = r.x]]
         ELSE json_xmlns_translate_children([ch EXCEPT ![j] = r.x], j + 1, dflt)

\* the statement of child x of a parent bound to yparent
\* xml_child_spec without the step from an rpc to its input
xml_child_spec_rpc(x, yparent, ymod, strict) ==
    IF yparent # NULL
    THEN IF ys_keyword(yparent) = "rpc"
         THEN IF yang_find(yparent, "input") # NULL
              THEN yang_find_datanode(yang_find(yparent, "input"), x.name)
              ELSE NULL
         ELSE yang_find_datanode(yparent, x.name)
    ELSE IF yang_find_schemanode(ymod, x.name) = NULL /\ ~strict
         THEN yang_find_schemanode("m1", x.name)
         ELSE yang_find_schemanode(ymod, x.name)

\* yparent: the statement of the parent xp, NULL when xp is NULL or unbound;
\* ymod: the module ys_module_by_xml finds, NULL when it finds none; strict:
\* _CLICON_XML_NS_STRICT.  Without it xml_yang_find_non_strict finds the
\* schema node of that name in any module, and only m1 has schema nodes.
xml_child_spec(x, yparent, ymod, strict) ==
    LET y == IF yparent # NULL
             THEN IF ys_keyword(yparent) = "rpc"
                  THEN IF yang_find(yparent, "input") # NULL
                       THEN yang_find_datanode(yang_find(yparent, "input"), x.name)
                       ELSE NULL
                  ELSE yang_find_datanode(yparent, x.name)
             ELSE IF yang_find_schemanode(ymod, x.name) = NULL /\ ~strict
                  THEN yang_find_schemanode("m1", x.name)
                  ELSE yang_find_schemanode(ymod, x.name)
    IN IF y # NULL /\ ys_keyword(y) = "rpc" /\ yang_find(y, "input") # NULL
       THEN yang_find(y, "input")
       ELSE y

RECURSIVE xml_spec_populate(_, _)
xml_spec_populate(x, y) ==
    [x EXCEPT !.spec = y,
              !.children = [j \in DOMAIN @ |->
                  IF @[j].type = CX_ELMNT
                  THEN xml_spec_populate(@[j], xml_child_spec(@[j], y, NULL, TRUE))
                  ELSE @[j]]]

\* YB_TOP: x is bound to the top-level data node of its name in its module
xml_spec_populate0(x) ==
    LET ymod == yang_find_module_by_namespace(xml_find_type_value(x))
    IN xml_spec_populate(x, xml_child_spec(x, NULL, ymod, TRUE))

xml_body_get(x) ==
    IF \E j \in DOMAIN x.children : x.children[j].type = CX_BODY
    THEN CHOOSE j \in DOMAIN x.children :
            /\ x.children[j].type = CX_BODY
            /\ \A h \in 1..(j - 1) : x.children[h].type # CX_BODY
    ELSE 0

\* x with the body and the attribute of the decoded leaf d
IdrefApply(x, d) ==
    [x EXCEPT !.children =
        [j \in DOMAIN @ |-> IF j = xml_body_get(x) THEN XBody(d.body) ELSE @[j]]
            \o [j \in 1..Cardinality(d.attrs \ Bindings(x)) |->
                   LET bd == CHOOSE a \in d.attrs \ Bindings(x) : TRUE
                   IN XAttr("xmlns", CHOOSE n \in DOMAIN Ascii : Ascii[n] = bd[1], bd[2])]]

RECURSIVE json2xml_decode(_, _, _)
RECURSIVE json2xml_decode_ref(_, _, _, _)
RECURSIVE json2xml_decode_each(_, _, _)
RECURSIVE json2xml_decode_children(_, _, _, _)
RECURSIVE json2xml_decode_next(_, _, _, _, _)
json2xml_decode(x, nsc, kludge) ==
    IF /\ x.spec # NULL
       /\ ys_keyword(x.spec) \in {Y_LEAF, Y_LEAF_LIST}
       /\ yang_type_get(x.spec) = "identityref"
       /\ xml_body_get(x) # 0
    THEN json2xml_decode_ref(
             x,
             json2xml_decode_identityref(
                 [module |-> ys_real_module(x.spec),
                  body |-> x.children[xml_body_get(x)].value,
                  attrs |-> Bindings(x), inherited |-> nsc, kludge |-> kludge]),
             nsc, kludge)
    ELSE json2xml_decode_each(x, nsc, kludge)

\* after json2xml_decode_identityref returned d
json2xml_decode_ref(x, d, nsc, kludge) ==
    IF d.retval = 0 THEN [retval |-> 0, x |-> x]
    ELSE json2xml_decode_each(IdrefApply(x, d.leaf), nsc, kludge)

\* the xml_child_each loop of json2xml_decode
json2xml_decode_each(x, nsc, kludge) ==
    LET r == json2xml_decode_children(x.children, 1, NsDown(x, nsc), kludge)
    IN [retval |-> r.retval, x |-> [x EXCEPT !.children = r.children]]

\* the loop over the element children from the j-th on
json2xml_decode_children(ch, j, nsc, kludge) ==
    IF j > Len(ch) THEN [retval |-> 1, children |-> ch]
    ELSE IF ch[j].type # CX_ELMNT THEN json2xml_decode_children(ch, j + 1, nsc, kludge)
    ELSE json2xml_decode_next(ch, j, json2xml_decode(ch[j], nsc, kludge), nsc, kludge)

json2xml_decode_next(ch, j, r, nsc, kludge) ==
    IF r.retval = 0 THEN [retval |-> 0, children |-> [ch EXCEPT ![j] = r.x]]
    ELSE json2xml_decode_children([ch EXCEPT ![j] = r.x], j + 1, nsc, kludge)

(***************************************************************************)
(* xml_apply0(xt, CX_ELMNT, xml_sort): xml_sort on every element of the    *)
(* tree.  The comparator sees of a child its statement, its body and its   *)
(* key leaves.                                                             *)
(***************************************************************************)
BodyOf(x) == IF xml_body_get(x) = 0 THEN NoBody ELSE x.children[xml_body_get(x)].value

FindBody(x, name) ==
    IF \E j \in DOMAIN x.children : x.children[j].type = CX_ELMNT /\ x.children[j].name = name
    THEN BodyOf(x.children[CHOOSE j \in DOMAIN x.children :
            /\ x.children[j].type = CX_ELMNT /\ x.children[j].name = name
            /\ \A h \in 1..(j - 1) : ~(x.children[h].type = CX_ELMNT /\ x.children[h].name = name)])
    ELSE NoBody

FlatChildren(x) ==
    [j \in DOMAIN x.children |->
        [id |-> j, type |-> x.children[j].type, name |-> x.children[j].name,
         spec |-> x.children[j].spec, body |-> BodyOf(x.children[j]),
         kv |-> [n \in KeyNames |-> FindBody(x.children[j], n)], cv |-> NoCv]]

RECURSIVE xml_apply0_sort(_)
RECURSIVE xml_apply_children(_)
xml_apply0_sort(x) ==
    IF x.type # CX_ELMNT THEN {x}
    ELSE {[x EXCEPT !.children = ch] :
             ch \in UNION {xml_apply_children(p) : p \in {[j \in DOMAIN q |-> x.children[q[j].id]] :
                                                      q \in xml_sort(x.spec, FlatChildren(x))}}}

\* every way of sorting below each child of the vector ch
xml_apply_children(ch) ==
    IF ch = <<>> THEN {<<>>}
    ELSE {<<h>> \o t : h \in xml_apply0_sort(Head(ch)), t \in xml_apply_children(Tail(ch))}

RECURSIVE xml_apply0_null(_)
xml_apply0_null(x) ==
    /\ x.type = CX_ELMNT
    /\ \/ xml_sort_null(x.spec, FlatChildren(x))
       \/ \E j \in DOMAIN x.children : xml_apply0_null(x.children[j])

(***************************************************************************)
(* _json_parse(str, yb, yspec, xt, xerr), yspec given.  c carries through  *)
(* the loop over the new objects: yb, the statement of xt, the build flag, *)
(* the counter failed, the tags of the errors written to xerr, and         *)
(* bindfail, the number of objects whose binding returned 0.               *)
(***************************************************************************)
JSON_TOP_SYMBOL == "top"

BUFLEN == 1024

\* every element of the tree has a statement: what xml_spec_populate0 returns
RECURSIVE xml_spec_populate_ret(_)
xml_spec_populate_ret(x) ==
    IF x.type # CX_ELMNT THEN 1
    ELSE IF x.spec = NULL THEN 0
    ELSE IF \A j \in DOMAIN x.children : xml_spec_populate_ret(x.children[j]) = 1 THEN 1
    ELSE 0

\* the switch on yb: the tree after binding
json_parse_bind(x, c) ==
    IF c.yb = "YB_PARENT" THEN xml_spec_populate(x, xml_child_spec(x, c.yparent, NULL, TRUE))
    ELSE IF c.yb = "YB_TOP" THEN xml_spec_populate0(x)
    ELSE x

JsonFail(xvec, c, tag) ==
    [retval |-> 0, xvec |-> xvec, failed |-> c.failed, bindfail |-> c.bindfail,
     xerr |-> c.xerr \cup {tag}]

RECURSIVE json_parse_objects(_, _, _)
RECURSIVE json_parse_translated(_, _, _, _)
RECURSIVE json_parse_bound(_, _, _, _, _)
RECURSIVE json_parse_decoded(_, _, _, _)
\* json_parse_objects testing the qualifier of the first object only
json_parse_objects_first(xvec, j, c) ==
    IF j > Len(xvec)
    THEN [retval |-> 1, xvec |-> xvec, failed |-> c.failed, bindfail |-> c.bindfail,
          xerr |-> c.xerr]
    ELSE IF j = 1 /\ xvec[j].prefix = NULL THEN JsonFail(xvec, c, "malformed-message")
    ELSE json_parse_translated(xvec, j, json_xmlns_translate(xvec[j], NoBody), c)

\* the objects the parser added, from the j-th on
json_parse_objects(xvec, j, c) ==
    IF j > Len(xvec)
    THEN [retval |-> 1, xvec |-> xvec, failed |-> c.failed, bindfail |-> c.bindfail,
          xerr |-> c.xerr]
    ELSE IF xvec[j].prefix = NULL THEN JsonFail(xvec, c, "malformed-message")
    ELSE json_parse_translated(xvec, j, json_xmlns_translate(xvec[j], NoBody), c)

\* t: what json_xmlns_translate returned
json_parse_translated(xvec, j, t, c) ==
    IF t.retval = 0 THEN JsonFail([xvec EXCEPT ![j] = t.x], c, "unknown-namespace")
    ELSE json_parse_bound(xvec, j, t.retval, json_parse_bind(t.x, c), c)

\* x: the object after the switch on yb; ret0: the variable ret, which YB_TOP
\* leaves as json_xmlns_translate set it
json_parse_bound(xvec, j, ret0, x, c) ==
    json_parse_decoded(
        xvec, j, json2xml_decode(x, {}, c.kludge),
        [c EXCEPT
           !.failed = IF \/ c.yb = "YB_PARENT" /\ xml_spec_populate_ret(x) = 0
                         \/ c.yb = "YB_TOP" /\ ret0 = 0
                      THEN @ + 1 ELSE @,
           !.bindfail = IF c.yb \in {"YB_PARENT", "YB_TOP"} /\ xml_spec_populate_ret(x) = 0
                        THEN @ + 1 ELSE @,
           !.xerr = IF c.yb \in {"YB_PARENT", "YB_TOP"} /\ xml_spec_populate_ret(x) = 0
                    THEN @ \cup {"unknown-element"} ELSE @])

\* d: what json2xml_decode returned
json_parse_decoded(xvec, j, d, c) ==
    IF d.retval = 0 THEN JsonFail([xvec EXCEPT ![j] = d.x], c, "unknown-namespace")
    ELSE json_parse_objects([xvec EXCEPT ![j] = d.x], j + 1, c)

\* after the loop: xml_apply0(xt, CX_ELMNT, xml_sort) and the return value
json_parse_sorted(xt, r) ==
    IF r.retval = 0
    THEN {[retval |-> 0, xt |-> [xt EXCEPT !.children = r.xvec], null |-> FALSE,
           xerr |-> r.xerr, bindfail |-> r.bindfail]}
    ELSE {[retval |-> IF r.failed = 0 THEN 1 ELSE 0, xt |-> st,
           null |-> xml_apply0_null([xt EXCEPT !.children = r.xvec]),
           xerr |-> r.xerr, bindfail |-> r.bindfail] :
             st \in xml_apply0_sort([xt EXCEPT !.children = r.xvec])}

\* the outcomes of _json_parse: retval, the tree xt, NULL dereferenced, the
\* tags in xerr
json_parse_done(p, yb, xt, kludge) ==
    IF ~p.ok
    THEN {[retval |-> -1, xt |-> xt, null |-> FALSE, xerr |-> {}, bindfail |-> 0]}
    ELSE json_parse_sorted(xt, json_parse_objects(p.nodes, 1,
             [yb |-> yb, yparent |-> xt.spec, kludge |-> kludge, failed |-> 0,
              bindfail |-> 0, xerr |-> {}]))

json_parse(toks, yb, xt, kludge) ==
    json_parse_done(clixon_json_parseparse(toks), yb, xt, kludge)

\* json_parse_str: the tree handed to _json_parse and the yang-bind mode
json_parse_str(toks, xt, kludge) ==
    IF xt = NoX THEN json_parse(toks, "YB_TOP", XElmnt(NULL, JSON_TOP_SYMBOL, NULL, <<>>), kludge)
    ELSE IF xt.spec = NULL THEN json_parse(toks, "YB_TOP", xt, kludge)
    ELSE json_parse(toks, "YB_PARENT", xt, kludge)

(***************************************************************************)
(* Documents: a top container of module m1 with its xmlns attribute,       *)
(* possibly one more attribute, and up to MaxKids children valid under the *)
(* schema.                                                                 *)
(***************************************************************************)
KLeaf(y, attrs, body) == XElmnt(NULL, y, y, attrs \o <<XBody(body)>>)

KEntry(y, key) == XElmnt(NULL, y, y, <<KLeaf("k", <<>>, key)>>)

PoolCodec ==
    { XElmnt(NULL, "c", "c", <<>>), XElmnt(NULL, "e", "e", <<>>),
      KEntry("l", Ascii.e0), KEntry("l", Ascii.e1), KEntry("u", Ascii.e0), KEntry("u", Ascii.e1),
      KLeaf("ll", <<>>, Ascii.n9), KLeaf("ll", <<>>, Ascii.n10),
      KLeaf("a", <<>>, <<120>>), KLeaf("a", <<>>, CDataOpen \o <<120>> \o CDataClose),
      KLeaf("b", <<XAttr(NULL, "xmlns", Ascii.ns2)>>, <<120>>),
      KLeaf("i", <<XAttr("xmlns", "i2", Ascii.ns2)>>, Ascii.i2 \o Ascii.colon \o Ascii.ida) }

\* no child twice, a leaf at most once
Documents ==
    {XElmnt(NULL, "top", "top", at \o v) :
        at \in { <<XAttr(NULL, "xmlns", Ascii.ns1)>>,
                 <<XAttr(NULL, "xmlns", Ascii.ns1), XAttr(NULL, "operation", <<120>>)>> },
        v \in {w \in UNION {[1..n -> PoolCodec] : n \in 0..MaxKids} :
                 \A h, j \in DOMAIN w :
                     h # j => /\ w[h] # w[j]
                              /\ ~(w[h].name = w[j].name /\ ys_keyword(w[h].spec) = Y_LEAF)}}

InitCodec ==
    /\ x0 = NULL
    /\ children = <<>>
    /\ before = <<>>
    /\ op = "init"
    /\ ret = 0
    /\ phase = "fresh"
    /\ fault = FALSE
    /\ req = NoReq
    /\ newx = NoNode
    /\ idref = NoDoc
    /\ \E t \in Documents, k \in BOOLEAN :
          doc = [xml |-> t, kludge |-> k, json |-> <<>>, xt |-> NoX,
                 out |-> XElmnt(NULL, JSON_TOP_SYMBOL, NULL, <<>>),
                 xerr |-> {}, bindfail |-> 0, yb |-> "YB_NONE", len |-> 0,
                 jsonbuflen |-> BUFLEN]

Xml2Json ==
    /\ op = "init"
    /\ doc' = [doc EXCEPT !.json = xml2json_cbuf(doc.xml, doc.kludge)]
    /\ ret' = 0
    /\ op' = "encode"
    /\ UNCHANGED <<x0, children, before, phase, fault, req, newx, idref>>

\* json_parse_str on the text at hand: the encoder's output or an input text
JsonParseStr ==
    /\ op \in {"encode", "input"}
    /\ \E r \in json_parse_str(doc.json, doc.xt, doc.kludge) :
          /\ doc' = [doc EXCEPT !.out = r.xt, !.xerr = r.xerr, !.bindfail = r.bindfail,
                                !.yb = IF doc.xt = NoX \/ doc.xt.spec = NULL
                                       THEN "YB_TOP" ELSE "YB_PARENT"]
          /\ ret' = r.retval
          /\ fault' = r.null
    /\ op' = "decode"
    /\ UNCHANGED <<x0, children, before, phase, req, newx, idref>>

SpecCodec == InitCodec /\ [][Xml2Json \/ JsonParseStr]_vars

(***************************************************************************)
(* Properties of the codec.                                                *)
(***************************************************************************)
AttrSet(x) == {x.children[j] : j \in {h \in DOMAIN x.children : ~NotAttr(x.children[h])}}

\* equal trees, up to where among the children the attributes stand
RECURSIVE EqModAttrs(_, _)
EqModAttrs(t1, t2) ==
    /\ [t1 EXCEPT !.children = <<>>] = [t2 EXCEPT !.children = <<>>]
    /\ AttrSet(t1) = AttrSet(t2)
    /\ LET c1 == SelectSeq(t1.children, NotAttr)
           c2 == SelectSeq(t2.children, NotAttr)
       IN /\ Len(c1) = Len(c2)
          /\ \A j \in DOMAIN c1 : EqModAttrs(c1[j], c2[j])

\* C9: encoding a schema-valid tree T with xml2json_cbuf and parsing the
\* result with json_parse_str gives, below the top element, a tree equal to
\* a sorted T up to where its attributes were inserted.
C9_XmlRoundTrip ==
    (op = "decode" /\ ~fault) =>
        /\ ret = 1
        /\ Len(doc.out.children) = 1
        /\ \E st \in xml_apply0_sort(doc.xml) : EqModAttrs(doc.out.children[1], st)

(***************************************************************************)
(* Encoding trees as a caller may hand them to xml2json_cbuf: a top        *)
(* element, bound to the container top or unbound, with up to MaxKids      *)
(* children, bound or not; and the reply of the example rpc, an output     *)
(* element with the leaves x and y.                                        *)
(***************************************************************************)
PoolEncode ==
    {KLeaf(t, <<>>, Ascii.n9) : t \in NumericTypes \ {"decimal64", "boolean"}}
        \cup
    { KLeaf("decimal64", <<>>, Ascii.n1p5), KLeaf("boolean", <<>>, Ascii.true),
      KLeaf("unres", <<>>, <<120>>), KLeaf("a", <<>>, <<120>>), KLeaf("b", <<>>, <<120>>),
      KLeaf("ll", <<>>, Ascii.n9), KLeaf("ll", <<>>, Ascii.n10), KEntry("l", Ascii.e0),
      XElmnt(NULL, "c", "c", <<XBody(<<120>>)>>), XElmnt(NULL, "z", NULL, <<XBody(Ascii.n9)>>),
      XElmnt(NULL, "c", "c", <<>>), XElmnt(NULL, "e", "e", <<>>), XElmnt(NULL, "ll", "ll", <<>>),
      XElmnt(NULL, "l", "l", <<>>), XElmnt(NULL, "z", NULL, <<>>),
      XElmnt(NULL, "z", NULL, <<KLeaf("a", <<>>, <<120>>), KLeaf("b", <<>>, <<120>>)>>),
      XElmnt(NULL, "b", "b", <<KLeaf("a", <<>>, <<120>>), KLeaf("b", <<>>, <<120>>)>>) }

InitEncode ==
    /\ x0 = NULL
    /\ children = <<>>
    /\ before = <<>>
    /\ op = "init"
    /\ ret = 0
    /\ phase = "fresh"
    /\ fault = FALSE
    /\ req = NoReq
    /\ newx = NoNode
    /\ idref = NoDoc
    /\ \E t \in {XElmnt(NULL, "output", "output",
                          <<XElmnt(NULL, "x", yx, <<XBody(Ascii.n0)>>),
                            XElmnt(NULL, "y", yy, <<XBody(Ascii.n42)>>)>>) :
                      yx \in {"x", NULL}, yy \in {"y", NULL}}
                  \cup
                  {XElmnt(NULL, "top", y, v) :
                      y \in {"top", NULL},
                      v \in UNION {[1..n -> PoolEncode] : n \in 0..MaxKids}} :
          doc = [xml |-> t, kludge |-> FALSE, json |-> <<>>, xt |-> NoX,
                 out |-> XElmnt(NULL, JSON_TOP_SYMBOL, NULL, <<>>),
                 xerr |-> {}, bindfail |-> 0, yb |-> "YB_NONE", len |-> 0,
                 jsonbuflen |-> BUFLEN]

SpecEncode == InitEncode /\ [][Xml2Json]_vars

(***************************************************************************)
(* Properties of encoding.                                                 *)
(***************************************************************************)
IsName(tk) == tk.t = "name"

IsValue(tk) == tk.t \in {"string", "raw"}

TypesOf(toks) == [j \in DOMAIN toks |-> toks[j].t]

\* the member names, in document order: an element prints its name unless
\* it goes on an array; anc is the module of its nearest bound ancestor
RECURSIVE MemberNames(_, _, _)
RECURSIVE MemberNamesBelow(_, _, _)
MemberNames(x, arraytype, anc) ==
    IF x.type # CX_ELMNT THEN <<>>
    ELSE (IF arraytype \in {"MIDDLE_ARRAY", "LAST_ARRAY"} THEN <<>>
          ELSE <<[mod |-> IF x.spec # NULL /\ ys_real_module(x.spec) # anc
                          THEN ys_real_module(x.spec) ELSE NULL,
                  name |-> x.name]>>)
         \o MemberNamesBelow(x, 0, IF x.spec # NULL THEN ys_real_module(x.spec) ELSE anc)

MemberNamesBelow(x, i, anc) ==
    IF i >= Len(x.children) THEN <<>>
    ELSE MemberNames(xml_child_i(x, i),
                     array_eval(IF i # 0 THEN xml_child_i(x, i - 1) ELSE NoX,
                                xml_child_i(x, i), xml_child_i(x, i + 1)),
                     anc)
         \o MemberNamesBelow(x, i + 1, anc)

\* C15: every member name is printed as module:local exactly when the
\* element's module differs from the module of its nearest bound ancestor
\* (or it has none), and as local when the two are the same.
C15_ModuleOnChange ==
    op = "encode" =>
        LET names == SelectSeq(doc.json, IsName) IN
        [j \in DOMAIN names |-> [mod |-> names[j].mod, name |-> names[j].name]]
            = MemberNames(doc.xml, "NO_ARRAY", NULL)

C15_Witness ==
    /\ op = "encode"
    /\ doc.xml = XElmnt(NULL, "top", "top",
                        <<XElmnt(NULL, "b", "b", <<KLeaf("a", <<>>, <<120>>),
                                                   KLeaf("b", <<>>, <<120>>)>>)>>)
    /\ SelectSeq(doc.json, IsName) =
          << Tok("name", "m1", "top", <<>>), Tok("name", "m2", "b", <<>>),
             Tok("name", "m1", "a", <<>>), Tok("name", NULL, "b", <<>>) >>

\* C16 as stated: the top-level element is always printed as module:local.
C16_TopAlwaysQualified ==
    op = "encode" => doc.json[2].t = "name" /\ doc.json[2].mod # NULL

\* C16 amended: the top-level element is printed as module:local when it is
\* bound to a statement, and as local when it is not.
C16_BoundTopQualified ==
    op = "encode" =>
        /\ doc.json[2].t = "name"
        /\ doc.json[2].name = doc.xml.name
        /\ doc.xml.spec # NULL => doc.json[2].mod = ys_real_module(doc.xml.spec)
        /\ doc.xml.spec = NULL => doc.json[2].mod = NULL

C16_Witness ==
    /\ op = "encode"
    /\ doc.xml.spec = "top"
    /\ doc.json[2] = Tok("name", "m1", "top", <<>>)

\* the parent elements of the bodies, in document order
RECURSIVE BodyParents(_)
RECURSIVE BodyParentsBelow(_, _)
BodyParents(x) == IF x.type # CX_ELMNT THEN <<>> ELSE BodyParentsBelow(x, 1)

BodyParentsBelow(x, j) ==
    IF j > Len(x.children) THEN <<>>
    ELSE (IF x.children[j].type = CX_BODY THEN <<x>> ELSE BodyParents(x.children[j]))
         \o BodyParentsBelow(x, j + 1)

\* the body of xp is of an integer, decimal64 or boolean leaf or leaf-list
NumericLeaf(xp) ==
    /\ xp.spec # NULL
    /\ ys_keyword(xp.spec) \in {Y_LEAF, Y_LEAF_LIST}
    /\ yang_type_get(xp.spec) \in NumericTypes

\* C17: the body of an integer, decimal64 or boolean leaf or leaf-list is
\* printed as it is, without quotes; every other body (of a string-kind
\* leaf, of a leaf with unresolved type, of an unbound parent) in quotes.
C17_QuoteByBaseKind ==
    op = "encode" =>
        LET vals == SelectSeq(doc.json, IsValue)
            bp == BodyParents(doc.xml)
        IN /\ Len(vals) = Len(bp)
           /\ \A j \in DOMAIN vals :
                 IF NumericLeaf(bp[j])
                 THEN vals[j] = Tok("raw", NULL, NULL, BodyOf(bp[j]))
                 ELSE vals[j].t = "string"

C17_Witness ==
    /\ op = "encode"
    /\ doc.xml = XElmnt(NULL, "top", "top",
                        <<KLeaf("decimal64", <<>>, Ascii.n1p5), KLeaf("unres", <<>>, <<120>>)>>)
    /\ SelectSeq(doc.json, IsValue) =
          <<Tok("raw", NULL, NULL, Ascii.n1p5), Tok("string", NULL, NULL, <<120>>)>>

Childless(x) == x.type = CX_ELMNT /\ xml_child_nr_notype(x) = 0

\* what follows the name of a childless element outside an array
EmptyMember(x) ==
    IF x.spec # NULL /\ ys_keyword(x.spec) = Y_CONTAINER THEN <<"{", "}">>
    ELSE IF x.spec # NULL /\ ys_keyword(x.spec) \in {Y_LEAF, Y_LEAF_LIST}
    THEN <<"[", "null", "]">>
    ELSE <<"null">>

ListBound(x) == x.spec # NULL /\ ys_keyword(x.spec) = Y_LIST

\* C19: a childless element outside an array is printed as "a":{} when
\* bound to a container, "a":[null] when bound to a leaf or leaf-list and
\* "a":null otherwise; in an array it is printed as null.
C19_ChildlessElement ==
    op = "encode" =>
        LET kids == doc.xml.children
            json == TypesOf(doc.json)
        IN /\ kids = <<>> => json = <<"{", "name">> \o EmptyMember(doc.xml) \o <<"}">>
           /\ (Len(kids) = 1 /\ Childless(kids[1]) /\ ~ListBound(kids[1])) =>
                 json = <<"{", "name", "{", "name">> \o EmptyMember(kids[1]) \o <<"}", "}">>
           /\ (Len(kids) = 2 /\ Childless(kids[1]) /\ Childless(kids[2])) =>
                 IF SameArray(kids[1], kids[2])
                 THEN json = <<"{", "name", "{", "name", "[", "null", ",", "null", "]", "}", "}">>
                 ELSE (~ListBound(kids[1]) /\ ~ListBound(kids[2])) =>
                         json = <<"{", "name", "{", "name">> \o EmptyMember(kids[1])
                                   \o <<",", "name">> \o EmptyMember(kids[2]) \o <<"}", "}">>

C19_Witness ==
    /\ op = "encode"
    /\ doc.xml = XElmnt(NULL, "top", "top",
                        <<XElmnt(NULL, "c", "c", <<>>), XElmnt(NULL, "e", "e", <<>>)>>)
    /\ TypesOf(doc.json) =
          <<"{", "name", "{", "name", "{", "}", ",", "name", "[", "null", "]", "}", "}">>

\* C20: an element bound to a list or a leaf-list that has no adjacent
\* sibling of its name is printed as an array of one item, "a":[ ... ].
C20_SingleItemArray ==
    (/\ op = "encode"
     /\ doc.xml.children # <<>>
     /\ doc.xml.children[1].spec # NULL
     /\ ys_keyword(doc.xml.children[1].spec) \in {Y_LIST, Y_LEAF_LIST}
     /\ Len(doc.xml.children) = 2 => ~SameArray(doc.xml.children[1], doc.xml.children[2])
     /\ Len(doc.xml.children) <= 2) =>
        doc.json[4].t = "name" /\ doc.json[5].t = "["

(***************************************************************************)
(* Resolving the statement of a child: xml_child_spec on a child of any    *)
(* name below a parent bound to any statement or to none.                  *)
(***************************************************************************)
InitResolve ==
    /\ x0 = NULL
    /\ children = <<>>
    /\ before = <<>>
    /\ op = "init"
    /\ ret = 0
    /\ phase = "fresh"
    /\ fault = FALSE
    /\ \E name \in DOMAIN Schema \cup {"z"}, yparent \in DOMAIN Schema \cup {NULL},
          ymod \in DOMAIN Modules \cup {NULL}, strict \in BOOLEAN :
          req = [name |-> name, yparent |-> yparent, ymod |-> ymod, strict |-> strict]
    /\ newx = NoNode
    /\ idref = NoDoc
    /\ doc = NoDoc

XmlChildSpec ==
    /\ op = "init"
    /\ ret' = xml_child_spec(XElmnt(NULL, req.name, NULL, <<>>), req.yparent, req.ymod,
                             req.strict)
    /\ op' = "resolve"
    /\ UNCHANGED <<x0, children, before, phase, fault, req, newx, idref, doc>>

SpecResolve == InitResolve /\ [][XmlChildSpec]_vars

\* C26 as stated: xml_child_spec never returns a statement of keyword rpc.
C26_NeverRpc == op = "resolve" => (ret = NULL \/ ys_keyword(ret) # "rpc")

\* C26 amended: xml_child_spec returns a statement of keyword rpc only when
\* that rpc has no input; below a parent bound to an rpc the result is the
\* data node of the rpc's input named like the child, or NULL; a resolution
\* that yields an rpc with an input returns the input.
C26_RpcOnlyWithoutInput ==
    op = "resolve" =>
        /\ (ret # NULL /\ ys_keyword(ret) = "rpc") => yang_find(ret, "input") = NULL
        /\ (req.yparent # NULL /\ ys_keyword(req.yparent) = "rpc") =>
              ret = IF yang_find(req.yparent, "input") # NULL
                    THEN yang_find_datanode(yang_find(req.yparent, "input"), req.name)
                    ELSE NULL
        /\ (/\ req.yparent = NULL
            /\ yang_find_schemanode(req.ymod, req.name) # NULL
            /\ ys_keyword(yang_find_schemanode(req.ymod, req.name)) = "rpc"
            /\ yang_find(yang_find_schemanode(req.ymod, req.name), "input") # NULL) =>
              ret = yang_find(yang_find_schemanode(req.ymod, req.name), "input")

C26_Witness ==
    /\ op = "resolve"
    /\ req = [name |-> "example", yparent |-> NULL, ymod |-> "m1", strict |-> TRUE]
    /\ ret = "input"

(***************************************************************************)
(* Typed values on leaf-list entries.  The JSON parser adds one entry at a *)
(* time below the container top: the entry is new, so it holds no typed    *)
(* value; its identityref body is decoded, and then the children are       *)
(* sorted.  qsort hands pairs of children to xml_cmp in an order of its    *)
(* own, each child at least once when there are two or more; before holds  *)
(* the children handed over so far.  A decoder that fails ends the parse   *)
(* before the sort.                                                        *)
(***************************************************************************)
InitCache ==
    /\ x0 = "top"
    /\ children = <<>>
    /\ before = {}
    /\ op = "init"
    /\ ret = 0
    /\ phase = "fresh"
    /\ fault = FALSE
    /\ req = NoReq
    /\ newx = NoNode
    /\ idref = NULL
    /\ doc = NoDoc

JsonParseEntry ==
    /\ op \in {"init", "done"}
    /\ Len(children) < MaxLen
    /\ \E y \in {"ll", "il", "dl"} :
          \E b \in CASE y = "ll" -> {Ascii.n10, Ascii.n42, Ascii.x}
                    [] y = "il" -> {Ascii.ida, Ascii.m2 \o Ascii.colon \o Ascii.ida,
                                    Ascii.zz \o Ascii.colon \o Ascii.ida}
                    [] y = "dl" -> {Ascii.n1p5, Ascii.n42, Ascii.n1p5 \o Ascii.n0} :
             LET d == IF yang_type_get(y) = "identityref"
                      THEN json2xml_decode_identityref(
                               [module |-> ys_real_module(y), json |-> b, body |-> b,
                                attrs |-> {},
                                inherited |-> {<<NoPrefix, Modules[ys_real_module(y)].namespace>>},
                                kludge |-> FALSE, out |-> <<>>])
                      ELSE [retval |-> 1, leaf |-> [body |-> b]]
             IN /\ newx' = Elmnt(Len(children) + 1, y, b, NoKeys)
                /\ children' = Append(children, Elmnt(Len(children) + 1, y, d.leaf.body, NoKeys))
                /\ ret' = d.retval
                /\ op' = IF d.retval = 1 THEN "sort" ELSE "done"
    /\ before' = {}
    /\ UNCHANGED <<x0, phase, fault, req, idref, doc>>

\* one call of the comparator from within qsort
XmlCmp ==
    /\ op = "sort"
    /\ \E i, j \in DOMAIN children :
          /\ i # j
          /\ LET x1 == children[i]
                 x2 == children[j]
                 c1 == xml_cv_cache(x1, xml_body(x1))
                 c2 == xml_cv_cache(x2, xml_body(x2))
             IN /\ children' =
                      IF /\ cmp_same_stmt(x1, x2)
                         /\ ys_keyword(xml_spec(x1)) = Y_LEAF_LIST
                         /\ xml_body(x1) # NoBody /\ xml_body(x2) # NoBody
                      THEN IF c1.retval < 0 THEN [children EXCEPT ![i] = c1.x]
                           ELSE [children EXCEPT ![i] = c1.x, ![j] = c2.x]
                      ELSE children
                /\ ret' = xml_cmp(x1, x2)
                /\ before' = before \cup {x1.id, x2.id}
    /\ UNCHANGED <<x0, op, phase, fault, req, newx, idref, doc>>

\* qsort returns: the children are in an order the comparator allows
XmlSorted ==
    /\ op = "sort"
    /\ Len(children) >= 2 => \A i \in DOMAIN children : children[i].id \in before
    /\ children' \in xml_sort(x0, children)
    /\ op' = "done"
    /\ ret' = 0
    /\ UNCHANGED <<x0, before, phase, fault, req, newx, idref, doc>>

SpecCache == InitCache /\ [][JsonParseEntry \/ XmlCmp \/ XmlSorted]_vars

\* the parse of a node's current body under its statement's resolved type
ParseOfBody(x) ==
    cv_parse1(xml_body(x), yang_type2cv(xml_spec(x)), YangMore[xml_spec(x)].fraction)

\* C27: a typed value on a node is the parse of the node's current body under
\* the resolved type, with the fraction digits of a decimal64; a body that
\* does not parse leaves no typed value; and reading a node again gives the
\* value the first read gave.
C27_CacheIsParseOfBody ==
    \A i \in DOMAIN children :
        LET x == children[i]
            r == xml_cv_cache(x, xml_body(x))
        IN /\ x.cv # NoCv =>
                 /\ xml_body(x) # NoBody
                 /\ ParseOfBody(x).ok = 1
                 /\ ParseOfBody(x).val = x.cv
           /\ (xml_body(x) # NoBody /\ ParseOfBody(x).ok = 0) => r.x.cv = NoCv
           /\ r.retval = 0 => xml_cv_cache(r.x, xml_body(x)).cv = r.cv

\* the entry parsed last is an identityref whose body the decoder rewrote; it
\* and an entry of an earlier parse hold their typed values after the sort,
\* next to a decimal64 entry
C27_Witness ==
    /\ op = "done"
    /\ Len(children) = 3
    /\ newx.body = Ascii.m2 \o Ascii.colon \o Ascii.ida
    /\ \E i, j, h \in DOMAIN children :
          /\ children[i].id = newx.id
          /\ children[i].body = Ascii.i2 \o Ascii.colon \o Ascii.ida
          /\ children[i].cv = [type |-> "CGV_STRING", num |-> 0, str |-> children[i].body]
          /\ children[j].spec = "il"
          /\ children[j].id < newx.id
          /\ children[j].cv = [type |-> "CGV_STRING", num |-> 0, str |-> Ascii.ida]
          /\ children[h].spec = "dl"
          /\ children[h].body = Ascii.n1p5

(***************************************************************************)
(* Encoding child sequences and string bodies.  One family of documents    *)
(* is the container top, bound or not, with up to MaxSibs children among   *)
(* which attributes and bodies stand between the elements; the other is    *)
(* top with the string leaf a, whose body is made of up to MaxSegs         *)
(* segments, each plain text or one CDATA section.                         *)
(***************************************************************************)
MaxSibs == 4

MaxSegs == 2

\* the XML text of a body made of these segments
RECURSIVE CDataText(_)
CDataText(segs) ==
    IF segs = <<>> THEN <<>>
    ELSE (IF Head(segs).cdata THEN CDataOpen \o Head(segs).text \o CDataClose
          ELSE Head(segs).text) \o CDataText(Tail(segs))

InitText ==
    /\ x0 = NULL
    /\ children = <<>>
    /\ before = <<>>
    /\ op = "init"
    /\ ret = 0
    /\ phase = "fresh"
    /\ fault = FALSE
    /\ req = NoReq
    /\ newx = NoNode
    /\ idref = NoDoc
    /\ \E y \in {"top", NULL} :
          \E sg \in UNION {[1..n ->
                         {[cdata |-> c, text |-> t] :
                             c \in BOOLEAN,
                             t \in {<<>>, <<120>>, <<34>>, <<92>>, <<10>>, <<9>>, <<93>>, <<60>>}}
                           \cup {[cdata |-> FALSE, text |-> CDataClose]}] : n \in 0..MaxSegs} :
             \E v \in IF sg # <<>> THEN {<<KLeaf("a", <<>>, CDataText(sg))>>}
                       ELSE UNION {[1..n ->
                                      { KLeaf("ll", <<>>, Ascii.n9),
                                        KLeaf("ll", <<XAttr(NULL, "xmlns", Ascii.ns2)>>, Ascii.n9),
                                        KEntry("l", Ascii.e0),
                                        XAttr(NULL, "xmlns", Ascii.ns1),
                                        XBody(<<120>>) }] : n \in 0..MaxSibs} :
                doc = [xml |-> XElmnt(NULL, "top", y, v), segs |-> sg,
                       kludge |-> FALSE, json |-> <<>>, xt |-> NoX,
                       out |-> XElmnt(NULL, JSON_TOP_SYMBOL, NULL, <<>>),
                       xerr |-> {}, bindfail |-> 0, yb |-> "YB_NONE", len |-> 0,
                       jsonbuflen |-> BUFLEN]

SpecText == InitText /\ [][Xml2Json]_vars

\* the classes array_eval gives to the children of x that are no attributes,
\* each with the neighbours the loop of xml2json1_cbuf hands over
ArrayClasses(x) ==
    LET idx == SelectSeq([j \in DOMAIN x.children |-> j],
                         LAMBDA j : x.children[j].type # CX_ATTR)
    IN [h \in DOMAIN idx |->
           array_eval(IF idx[h] - 1 # 0 THEN xml_child_i(x, idx[h] - 2) ELSE NoX,
                      xml_child_i(x, idx[h] - 1), xml_child_i(x, idx[h]))]

\* the number of [ less the number of ] among the first n tokens
RECURSIVE BracketDepth(_, _)
BracketDepth(toks, n) ==
    IF n = 0 THEN 0
    ELSE BracketDepth(toks, n - 1)
         + (IF toks[n].t = "[" THEN 1 ELSE IF toks[n].t = "]" THEN -1 ELSE 0)

\* C28: among the children of an element, with attributes and bodies
\* anywhere between them, a first is followed by middles and then a last,
\* a middle or a last follows a first or a middle directly, and the [ and ]
\* printed are balanced.
C28_ArraysWellBracketed ==
    op = "encode" =>
        LET cls == ArrayClasses(doc.xml) IN
        /\ \A h \in DOMAIN cls :
              /\ cls[h] \in {"FIRST_ARRAY", "MIDDLE_ARRAY"} =>
                    h < Len(cls) /\ cls[h + 1] \in {"MIDDLE_ARRAY", "LAST_ARRAY"}
              /\ cls[h] \in {"MIDDLE_ARRAY", "LAST_ARRAY"} =>
                    h > 1 /\ cls[h - 1] \in {"FIRST_ARRAY", "MIDDLE_ARRAY"}
        /\ \A n \in 0..Len(doc.json) : BracketDepth(doc.json, n) >= 0
        /\ BracketDepth(doc.json, Len(doc.json)) = 0

\* a run of two entries, an attribute, and a third entry of the same name that
\* stands alone: one array is opened and closed
C28_Witness ==
    /\ op = "encode"
    /\ Len(doc.xml.children) = 4
    /\ doc.xml.children[3].type = CX_ATTR
    /\ \A j \in {1, 2, 4} : doc.xml.children[j] = KLeaf("ll", <<>>, Ascii.n9)
    /\ ArrayClasses(doc.xml) = <<"FIRST_ARRAY", "LAST_ARRAY", "NO_ARRAY">>
    /\ Cardinality({n \in DOMAIN doc.json : doc.json[n].t = "["}) = 1

\* a character as the escaper has to print it
EscapedChar(c) ==
    IF c = 10 THEN <<92, 110>> ELSE IF c = 34 THEN <<92, 34>>
    ELSE IF c = 92 THEN <<92, 92>> ELSE <<c>>

\* the texts of the segments, markers left out, every character escaped
RECURSIVE EscapedText(_)
RECURSIVE EscapedSegs(_)
EscapedText(t) == IF t = <<>> THEN <<>> ELSE EscapedChar(Head(t)) \o EscapedText(Tail(t))

EscapedSegs(segs) ==
    IF segs = <<>> THEN <<>> ELSE EscapedText(Head(segs).text) \o EscapedSegs(Tail(segs))

\* the string printed for the body of leaf a
StringOfA == SelectSeq(doc.json, LAMBDA tk : tk.t = "string")

\* C29: for a body of plain text and CDATA sections the string printed is the
\* text of the segments in order, without the markers of the sections, with
\* newline, quote and backslash escaped alike inside and outside a section;
\* a ]]> in plain text is printed as it is.
C29_CDataUnwrapped ==
    (op = "encode" /\ doc.segs # <<>>) =>
        /\ Len(StringOfA) = 1
        /\ StringOfA[1].v = EscapedSegs(doc.segs)

\* plain text ending in ]]> before a section that holds a quote
C29_Witness ==
    /\ op = "encode"
    /\ doc.segs = <<[cdata |-> FALSE, text |-> CDataClose], [cdata |-> TRUE, text |-> <<34>>]>>
    /\ Len(StringOfA) = 1
    /\ StringOfA[1].v = CDataClose \o <<92, 34>>

\* C30: a string printed between quotes holds no character below 0x20.
C30_StringIsValidJson ==
    op = "encode" =>
        \A n \in DOMAIN doc.json :
            doc.json[n].t = "string" => \A h \in DOMAIN doc.json[n].v : doc.json[n].v[h] >= 32

(***************************************************************************)
(* Parsing input texts: an object of up to MaxMembers top-level members,   *)
(* the empty text and a text that is no JSON, through json_parse_str,      *)
(* json_parse_str2 and json_parse_file, with *xt NULL, an unbound top or a *)
(* top bound to the container top.  json_parse_file reads the text one     *)
(* unit per read(), here one token.                                        *)
(***************************************************************************)
MaxMembers == 2

Members ==
    { <<Tok("name", "m1", "top", <<>>), Tok("{", NULL, NULL, <<>>), Tok("}", NULL, NULL, <<>>)>>,
      <<Tok("name", "m1", "c", <<>>), Tok("{", NULL, NULL, <<>>), Tok("}", NULL, NULL, <<>>)>>,
      <<Tok("name", "m1", "z", <<>>), Tok("null", NULL, NULL, <<>>)>>,
      <<Tok("name", NULL, "z", <<>>), Tok("null", NULL, NULL, <<>>)>>,
      <<Tok("name", NULL, "c", <<>>), Tok("{", NULL, NULL, <<>>), Tok("}", NULL, NULL, <<>>)>>,
      <<Tok("name", "zz", "c", <<>>), Tok("null", NULL, NULL, <<>>)>>,
      <<Tok("name", "m1", "i", <<>>),
        Tok("string", NULL, NULL, Ascii.zz \o Ascii.colon \o Ascii.ida)>> }

RECURSIVE JsonObject(_)
JsonObject(ms) ==
    IF Len(ms) = 1 THEN Head(ms) \o <<Tok("}", NULL, NULL, <<>>)>>
    ELSE Head(ms) \o <<Tok(",", NULL, NULL, <<>>)>> \o JsonObject(Tail(ms))

InitParse ==
    /\ x0 = NULL
    /\ children = <<>>
    /\ before = <<>>
    /\ op = "input"
    /\ ret = 0
    /\ phase = "fresh"
    /\ fault = FALSE
    /\ req = NoReq
    /\ newx = NoNode
    /\ idref = NoDoc
    /\ \E t \in
            {<<>>, <<Tok("{", NULL, NULL, <<>>)>>}
                \cup {<<Tok("{", NULL, NULL, <<>>)>> \o JsonObject(ms) :
                        ms \in {w \in UNION {[1..n -> Members] : n \in 1..MaxMembers} :
                                  \A h, j \in DOMAIN w : h # j => w[h] # w[j]}},
          k \in BOOLEAN,
          xt \in {NoX, XElmnt(NULL, JSON_TOP_SYMBOL, NULL, <<>>),
                  XElmnt(NULL, JSON_TOP_SYMBOL, "top", <<>>)} :
          doc = [xml |-> NoX, kludge |-> k, json |-> t, xt |-> xt, out |-> xt,
                 xerr |-> {}, bindfail |-> 0, yb |-> "YB_NONE", len |-> 0,
                 jsonbuflen |-> BUFLEN]

\* *xt as _json_parse gets it: created when the caller passed NULL
XtOrNew(xt) == IF xt = NoX THEN XElmnt(NULL, JSON_TOP_SYMBOL, NULL, <<>>) ELSE xt

JsonParseStr2 ==
    /\ op = "input"
    /\ \E yb \in {"YB_NONE", "YB_PARENT", "YB_TOP"} :
       \E r \in json_parse(doc.json, yb, XtOrNew(doc.xt), doc.kludge) :
          /\ doc' = [doc EXCEPT !.out = r.xt, !.xerr = r.xerr, !.bindfail = r.bindfail,
                                !.yb = yb]
          /\ ret' = r.retval
          /\ fault' = r.null
    /\ op' = "decode"
    /\ UNCHANGED <<x0, children, before, phase, req, newx, idref>>

\* json_parse_file: read() returned 1
JsonParseFileRead ==
    /\ op \in {"input", "read"}
    /\ doc.len < Len(doc.json)
    /\ doc' = [doc EXCEPT !.len = @ + 1,
                          !.jsonbuflen = IF doc.len + 1 >= @ - 1 THEN 2 * @ ELSE @]
    /\ op' = "read"
    /\ UNCHANGED <<x0, children, before, ret, phase, fault, req, newx, idref>>

\* what json_parse_file returns once read() returned 0 with len units read
json_parse_file_eof(toks, len, xt, kludge) ==
    IF len = 0
    THEN {[retval |-> 1, xt |-> XtOrNew(xt), null |-> FALSE, xerr |-> {}, bindfail |-> 0]}
    ELSE {[r EXCEPT !.xt = IF r.retval < 0 THEN NoX ELSE @] :
             r \in json_parse(SubSeq(toks, 1, len),
                              IF xt = NoX THEN "YB_TOP" ELSE "YB_PARENT",
                              XtOrNew(xt), kludge)}

\* json_parse_file: read() returned 0
JsonParseFileEof ==
    /\ op \in {"input", "read"}
    /\ doc.len = Len(doc.json)
    /\ \E r \in json_parse_file_eof(doc.json, doc.len, doc.xt, doc.kludge) :
          /\ doc' = [doc EXCEPT !.out = r.xt, !.xerr = r.xerr, !.bindfail = r.bindfail,
                                !.yb = IF doc.xt = NoX THEN "YB_TOP" ELSE "YB_PARENT"]
          /\ ret' = r.retval
          /\ fault' = r.null
    /\ op' = "decode"
    /\ UNCHANGED <<x0, children, before, phase, req, newx, idref>>

\* json_parse_file: read() returned -1: clicon_err, break, retval = 1
JsonParseFileFail ==
    /\ op \in {"input", "read"}
    /\ ret' = 1
    /\ op' = "readfail"
    /\ UNCHANGED <<x0, children, before, phase, fault, req, newx, idref, doc>>

SpecParse ==
    InitParse /\ [][\/ JsonParseStr
                    \/ JsonParseStr2
                    \/ JsonParseFileRead
                    \/ JsonParseFileEof
                    \/ JsonParseFileFail]_vars

(***************************************************************************)
(* Properties of parsing.                                                  *)
(***************************************************************************)
TopMembers == clixon_json_parseparse(doc.json).nodes

\* the text is JSON and has an unqualified top-level member
Unqualified ==
    /\ clixon_json_parseparse(doc.json).ok
    /\ \E j \in DOMAIN TopMembers : TopMembers[j].prefix = NULL

FirstUnqualified ==
    CHOOSE j \in DOMAIN TopMembers :
        /\ TopMembers[j].prefix = NULL
        /\ \A h \in 1..(j - 1) : TopMembers[h].prefix # NULL

\* a member before the first unqualified one names an unknown module or
\* holds an identityref
EarlierRejected ==
    \E h \in 1..(FirstUnqualified - 1) :
        \/ TopMembers[h].prefix \notin DOMAIN Modules
        \/ TopMembers[h].name = "i"

\* C11 as stated: a text with an unqualified top-level member, wherever it
\* stands, is parsed to 0 with a malformed-message report.
C11_UnqualifiedIsMalformed ==
    (op = "decode" /\ Unqualified) =>
        ret = 0 /\ "malformed-message" \in doc.xerr

\* C11 amended: such a text is parsed to 0, never to 1, with a report: the
\* malformed-message one, unless a member before the unqualified one was
\* rejected first, whose unknown-namespace report it then is.
C11_UnqualifiedIsInvalid ==
    (op = "decode" /\ Unqualified) =>
        /\ ret = 0
        /\ \/ "malformed-message" \in doc.xerr
           \/ "unknown-namespace" \in doc.xerr /\ EarlierRejected

C11_Witness ==
    /\ op = "decode"
    /\ Unqualified
    /\ Len(TopMembers) = 2
    /\ TopMembers[1].prefix = "m1"
    /\ TopMembers[2].prefix = NULL
    /\ ret = 0
    /\ "malformed-message" \in doc.xerr

\* C12: when binding statements to a top-level member reported invalid,
\* under YB_TOP as under YB_PARENT, the parse returns 0 with a report.
C12_BindFailureIsInvalid ==
    (op = "decode" /\ ~fault /\ doc.yb \in {"YB_TOP", "YB_PARENT"} /\ doc.bindfail > 0) =>
        ret = 0 /\ doc.xerr # {}

\* C13: json_parse_file returns -1 after a failed read().
C13_ReadFailureIsFatal == op = "readfail" => ret = -1

(***************************************************************************)
(* Totality of sorting, searching and inserting.                           *)
(***************************************************************************)
\* C14: xml_sort, xml_search and xml_insert_pos always return a result:
\* no call hands NULL to strcmp (a list entry without a key leaf) or to
\* yang_order (an unbound child probed in a user-ordered run).
C14_NeverFails == ~fault

====
